---- MODULE Spec2Model ----
(***************************************************************************)
(* Verification model of the dit learning/inference core (Go):             *)
(*   crf          - Alphabet, Model layout, Viterbi, Train (OWL-QN)        *)
(*   vectorizer   - SparseVector, CountVectorizer, TfidfVectorizer         *)
(*   classifier   - FormTypeModel training / inference                     *)
(* Each component has its own specification (SpecViterbi, ...); the        *)
(* variables of the other components stay at their initial value.          *)
(* Scores and weights are integers: the claims checked here are about      *)
(* comparisons, indices and control flow, which integers carry exactly.    *)
(***************************************************************************)
EXTENDS Integers, Sequences, FiniteSets, TLC

VARIABLES
    \* ---- crf.Viterbi (src/crf/crf.go:951-1008)
    stateScores,    \* [T][L] state score matrix handed to Viterbi
    transScores,    \* [L][L] transition score matrix
    vitPath,        \* returned path ([]int)
    vitScore,       \* returned score (float64, may be -Inf)
    vitPc,          \* "call" before Viterbi runs, "done" after it returned
    \* ---- crf.Alphabet (src/crf/crf.go:5-39)
    alpha,          \* the Alphabet: [ToID: map[string]int, ToStr: []string]
    alphaOp,        \* the last call made on it: [op, arg, ret]
    alphaSeen,      \* history: the strings passed to Add, in first-seen order
    \* ---- vectorizer.SparseVector (src/internal/vectorizer/sparse.go:7-28)
    sv,             \* the vector: [Indices: []int, Values: []float64, Dim: int]
    svOp,           \* the last call made on it: [op, idx, val]
    svCalls,        \* history: the set of idx values passed to Set
    \* ---- crf.Train (src/crf/crf.go:222-568)
    trSeqs,         \* argument sequences []TrainingSequence
    trConfig,       \* argument config TrainerConfig
    trPc,           \* position in Train
    trModel,        \* model (w aliases model.Weights)
    trInternals,    \* internals []internalSeq
    trIter,         \* iter of the optimisation loop
    trDirDeriv,     \* dot(dir, pg) of the current iteration: "neg" or "nonneg"
    trStep,         \* step returned by owlqnLineSearch
    trLbfgs,        \* the L-BFGS memory: [k, size]
    trStop,         \* why the loop was left
    trLog,          \* slog.Warn messages written
    trRet,          \* the *Model returned to the caller
    \* ---- vectorizer.TfidfVectorizer (src/internal/vectorizer/tfidf.go)
    tvCorpus,       \* the corpus handed to Fit
    tv,             \* the vectorizer: CountVec, IDF, StopWords
    tvPc,           \* "new" before Fit, then "fitted", then "transformed"
    tvText,         \* the text of the last Transform
    tvOut,          \* the vector the last Transform returned
    \* ---- crf inference, one call (src/crf/crf.go:94-130, 1011-1041)
    infModel,       \* the trained *Model
    infInput,       \* features []map[string]float64
    infPc,          \* "call" before the call, "done" after
    infOp,          \* the method called
    infRes,         \* what it returned
    \* ---- concurrent inference calls on one crf model and one form-type model
    cnCrf,          \* the shared *crf.Model
    cnFt,           \* the shared *FormTypeModel
    cnProc,         \* per call: method, argument, position, locals, result
    cnOverlap,       \* history: a call stepped while another was under way
    \* ---- Count
    cvCorpus,       \* the corpus handed to CountVectorizer.Fit
    cvec,           \* the CountVectorizer
    cvPc,            \* "new" before Fit, "fitted" after
    \* ---- Dict
    dvData,         \* the dicts handed to DictVectorizer.Fit
    dvec,           \* the DictVectorizer
    dvPc,           \* "new" before Fit, "fitted" after, "transformed" after Transform
    dvInput,        \* the dict handed to Transform
    dvOut,           \* the vector Transform returned
    \* ---- Concat
    ccIn,           \* the three vectors a, b, c
    ccPc,           \* the calls of ConcatSparse made so far
    ccFlat,         \* ConcatSparse([a, b, c])
    ccInner,        \* ConcatSparse([a, b])
    ccNested,        \* ConcatSparse([ConcatSparse([a, b]), c])
    \* ---- Optim
    opKind,         \* which trainer runs: "crf" (crf.Train) or "logreg" (TrainFormType)
    opCap,          \* config.MaxIterations, config.MaxIter
    opPc,           \* the position in the trainer
    opIter,         \* iter of the loop
    opRuns,         \* history: the loop bodies entered
    opDirDeriv,     \* dot(dir, pg) of owlqnLineSearch: "neg", "nonneg" or "nan"
    opTrial,        \* trial of the line search
    opExp,          \* the step of the line search is 0.5^opExp
    opEvals,        \* history: the objective evaluations of this line search
    opTried,        \* history: the exponents of the steps this line search evaluated
    opRet,          \* the step the line search returned
    opPassed,       \* history: the returned step passed the test of the line search
    opAdopted,      \* history: the steps the weights were moved by
    opStop,          \* why the loop was left
    \* ---- Eval
    evDomains,      \* the domain of each form-annotated annotation
    evNFolds,       \* nFolds of Evaluate
    evPc,           \* the position in Evaluate
    evGroups,       \* groups, as domainGroups returned it
    evFolds,        \* folds, as groupKFold returned it
    evFold,         \* the fold the loop is at
    evTrain,        \* the indices filterByIndex kept for training in this fold
    evTested,       \* history: how often each example was classified as a test example
    evSplits,        \* history: the test and training indices of the folds run
    \* ---- FormType
    ftForms,        \* forms of TrainFormType: what the extractors return of each form
    ftLabels,       \* labels of TrainFormType
    ftMaxIter,      \* config.MaxIter
    ftPc,           \* the position in TrainFormType, then in extractFeatures
    ftModel,        \* model
    ftX,            \* xData
    ftParams,       \* params
    ftProbe,        \* the form handed to extractFeatures
    ftOut,           \* the vector extractFeatures returned
    \* ---- Fb
    fbState,        \* stateScores of ForwardBackward
    fbTrans,        \* transScores of ForwardBackward
    fbPc,           \* "call" before the run, "done" after
    fbRes,           \* the ForwardBackwardResult
    \* ---- Pg
    pgC1,           \* config.C1
    pgW,            \* w
    pgGrad,         \* grad or newGrad
    pgOut,          \* pg or newPG
    pgPc,            \* which copy of the rule ran
    \* ---- Owlqn
    owC1,           \* config.C1
    owW,            \* w
    owGrad,         \* grad
    owPg,           \* pg
    owDir,          \* dir
    owStep,         \* the step the line search returned
    owTrial,        \* wNew of the line search
    owPrevW,        \* prevW
    owS,            \* s
    owPc,            \* position in the iteration
    \* ---- Crawl
    crSite,         \* the links on each page of the site
    crMaxPerSite,   \* opts.maxPerSite
    crMaxTotal,     \* opts.maxTotal
    crTotal,        \* *opts.total
    crCollected,    \* collected
    crVisited,      \* visited
    crLinks,        \* links
    crN,            \* the length of the slice the range statement took
    crI,            \* the index the range statement is at
    crPc,           \* position in crawlSite
    crStop,          \* how the loop was left
    \* ---- Lbfgs
    lmL,            \* the lbfgs value: k, size and the m slots
    lmCalls,        \* number of update calls made
    lmLastSy,       \* dot(s, y) of the last update call
    lmAccepted,     \* the update calls that stored a pair, oldest first
    lmReads         \* slots read by the last computeDirection

vitVars == <<stateScores, transScores, vitPath, vitScore, vitPc>>
alphaVars == <<alpha, alphaOp, alphaSeen>>
svVars == <<sv, svOp, svCalls>>
trVars == <<trSeqs, trConfig, trPc, trModel, trInternals, trIter, trDirDeriv,
            trStep, trLbfgs, trStop, trLog, trRet>>

tvVars == <<tvCorpus, tv, tvPc, tvText, tvOut>>

infVars == <<infModel, infInput, infPc, infOp, infRes>>

cnVars == <<cnCrf, cnFt, cnProc, cnOverlap>>

cvVars == <<cvCorpus, cvec, cvPc>>

dvVars == <<dvData, dvec, dvPc, dvInput, dvOut>>

ccVars == <<ccIn, ccPc, ccFlat, ccInner, ccNested>>

opVars == <<opKind, opCap, opPc, opIter, opRuns, opDirDeriv, opTrial, opExp, opEvals, opTried, opRet, opPassed, opAdopted, opStop>>

evVars == <<evDomains, evNFolds, evPc, evGroups, evFolds, evFold, evTrain, evTested, evSplits>>

ftVars == <<ftForms, ftLabels, ftMaxIter, ftPc, ftModel, ftX, ftParams, ftProbe, ftOut>>

fbVars == <<fbState, fbTrans, fbPc, fbRes>>

pgVars == <<pgC1, pgW, pgGrad, pgOut, pgPc>>

owVars == <<owC1, owW, owGrad, owPg, owDir, owStep, owTrial, owPrevW, owS, owPc>>

crVars == <<crSite, crMaxPerSite, crMaxTotal, crTotal, crCollected, crVisited, crLinks, crN, crI, crPc, crStop>>

lmVars == <<lmL, lmCalls, lmLastSy, lmAccepted, lmReads>>

vars == <<vitVars, alphaVars, svVars, trVars, tvVars, infVars, cnVars, cvVars, dvVars, ccVars, opVars, evVars, ftVars, fbVars, pgVars, owVars, crVars, lmVars>>

----------------------------------------------------------------------------
(* Bounds *)
MaxT == 3          \* longest sequence handed to Viterbi
MaxCells == 15     \* most matrix cells handed to Viterbi: T*L + L*L <= MaxCells
MaxStrings == 4    \* distinct strings offered to an Alphabet (strings are 1..MaxStrings)
MaxDim == 2        \* largest Dim of a SparseVector; Set is called with idx in 0..MaxDim
SvVals == {1, 2}   \* the values passed to Set
MaxSeqs == 2       \* most training sequences handed to Train
MaxPos == 2        \* most positions in all training sequences together
MaxIters == 2      \* largest config.MaxIterations
MaxDocs == 2       \* most documents in a corpus
MaxCorpusChars == 3    \* most characters in all documents of a corpus
MaxTextLen == 3    \* longest text handed to Transform
MaxInfT == 2       \* longest sequence handed to an inference call
MaxInfWeights == 6 \* most weights of a model handed to an inference call
MaxProcs == 2      \* the number of concurrent inference calls
TrainLabels == {1, 2}      \* the label strings of the training data
TrainAttrs == {1, 2}       \* the attribute strings of the training data

----------------------------------------------------------------------------
(* Go slices as functions on 0..n-1 *)
Len0(f) == Cardinality(DOMAIN f)
Append0(f, x) == [i \in 0..Len0(f) |-> IF i = Len0(f) THEN x ELSE f[i]]
Range0(f) == {f[i] : i \in DOMAIN f}
NoDup0(f) == \A i, j \in DOMAIN f : f[i] = f[j] => i = j
ScoreVals == {-1, 1}   \* the score values the matrices are drawn from

----------------------------------------------------------------------------
(* Extended floats: math.Inf(-1) is below every finite score. *)
NegInf == [fin |-> FALSE, val |-> 0]
Fin(x) == [fin |-> TRUE, val |-> x]

\* a scan that also replaces the best on an equal score (keeps the last best)
ScoreGreaterOrEqual(a, b) ==
    IF ~a.fin THEN ~b.fin
    ELSE IF ~b.fin THEN TRUE
    ELSE a.val >= b.val

\* "score > bestScore" of the two scans of Viterbi (float64 comparison)
ScoreGreater(a, b) ==
    IF ~a.fin THEN FALSE
    ELSE IF ~b.fin THEN TRUE
    ELSE a.val > b.val

\* float64 addition with -Inf absorbing
FAdd(a, b) ==
    IF a.fin /\ b.fin THEN Fin(a.val + b.val) ELSE NegInf

\* for yp := range L { if cand[yp] > bestScore { bestScore = cand[yp]; best = yp } }
\* starting from bestScore = -Inf, best = 0
RECURSIVE ScanBest(_, _, _, _, _)
ScanBest(cand, L, yp, bestScore, best) ==
    IF yp >= L THEN [score |-> bestScore, idx |-> best]
    ELSE IF ScoreGreater(cand[yp], bestScore)
         THEN ScanBest(cand, L, yp + 1, cand[yp], yp)
         ELSE ScanBest(cand, L, yp + 1, bestScore, best)

\* delta[0][y] = stateScores[0][y]; psi[0][y] = 0
VitInitRow(ss, L) ==
    [delta |-> [y \in 0..(L-1) |-> Fin(ss[0][y])],
     psi   |-> [y \in 0..(L-1) |-> 0]]

\* a cell that forgets the state score of its own position
DeltaCellNoState(bestScore, s) == bestScore

\* delta[t][y] = bestScore + stateScores[t][y]
DeltaCell(bestScore, s) == FAdd(bestScore, Fin(s))

\* one row t >= 1 of the dynamic program, from the row t-1
VitStepRow(ss, tr, L, t, prevDelta) ==
    LET best(y) == ScanBest([yp \in 0..(L-1) |-> FAdd(prevDelta[yp], Fin(tr[yp][y]))],
                            L, 0, NegInf, 0)
    IN [delta |-> [y \in 0..(L-1) |-> DeltaCell(best(y).score, ss[t][y])],
        psi   |-> [y \in 0..(L-1) |-> best(y).idx]]

\* rows 0..t of delta and psi
RECURSIVE VitRows(_, _, _, _)
VitRows(ss, tr, L, t) ==
    IF t = 0 THEN [u \in {0} |-> VitInitRow(ss, L)]
    ELSE LET prev == VitRows(ss, tr, L, t - 1)
             row  == VitStepRow(ss, tr, L, t, prev[t-1].delta)
         IN [u \in 0..t |-> IF u = t THEN row ELSE prev[u]]

\* path[T-1] = bestLabel; path[t] = psi[t+1][path[t+1]]
RECURSIVE Backtrack(_, _, _, _)
Backtrack(rows, T, t, next) ==
    IF t < 0 THEN [u \in {} |-> 0]
    ELSE LET here == rows[t+1].psi[next]
             rest == Backtrack(rows, T, t - 1, here)
         IN [u \in 0..t |-> IF u = t THEN here ELSE rest[u]]

\* Viterbi(stateScores, transScores) ([]int, float64)
Viterbi(ss, tr, T, L) ==
    IF T = 0 THEN [path |-> << >>, score |-> NegInf]
    ELSE LET rows  == VitRows(ss, tr, L, T - 1)
             final == ScanBest(rows[T-1].delta, L, 0, NegInf, 0)
             front == Backtrack(rows, T, T - 2, final.idx)
         IN [path  |-> [u \in 0..(T-1) |-> IF u = T - 1 THEN final.idx ELSE front[u]],
             score |-> final.score]

----------------------------------------------------------------------------
(* crf.Viterbi as a state machine: inputs drawn, one call. *)
VitT == Cardinality(DOMAIN stateScores)
VitL == Cardinality(DOMAIN transScores)

VitInit ==
    /\ \E L \in 1..MaxCells, T \in 0..MaxT :
          /\ T * L + L * L <= MaxCells
          /\ stateScores \in [0..(T-1) -> [0..(L-1) -> ScoreVals]]
          /\ transScores \in [0..(L-1) -> [0..(L-1) -> ScoreVals]]
    /\ vitPath = << >>
    /\ vitScore = NegInf
    /\ vitPc = "call"

VitIdle ==
    /\ stateScores = << >>
    /\ transScores = << >>
    /\ vitPath = << >>
    /\ vitScore = NegInf
    /\ vitPc = "idle"

RunViterbi ==
    /\ vitPc = "call"
    /\ LET r == Viterbi(stateScores, transScores, VitT, VitL)
       IN /\ vitPath' = r.path
          /\ vitScore' = r.score
    /\ vitPc' = "done"
    /\ UNCHANGED <<stateScores, transScores>>
    /\ UNCHANGED <<alphaVars, svVars, trVars, tvVars, infVars, cnVars, cvVars, dvVars, ccVars, opVars, evVars, ftVars, fbVars, pgVars, owVars, crVars, lmVars>>

VitNext == RunViterbi

----------------------------------------------------------------------------
(* crf.Alphabet *)
Strings == 1..MaxStrings

\* NewAlphabet(): empty map, nil slice
NewAlphabet == [ToID |-> << >>, ToStr |-> << >>]

\* an Add that never looks the string up and always appends
AlphabetAddAlways(a, s) ==
    [alpha |-> [ToID  |-> [x \in DOMAIN a.ToID \cup {s} |->
                              IF x = s THEN Len0(a.ToStr) ELSE a.ToID[x]],
                ToStr |-> Append0(a.ToStr, s)],
     id    |-> Len0(a.ToStr)]

\* func (a *Alphabet) Add(s string) int
AlphabetAdd(a, s) ==
    IF s \in DOMAIN a.ToID
    THEN [alpha |-> a, id |-> a.ToID[s]]
    ELSE [alpha |-> [ToID  |-> [x \in DOMAIN a.ToID \cup {s} |->
                                   IF x = s THEN Len0(a.ToStr) ELSE a.ToID[x]],
                     ToStr |-> Append0(a.ToStr, s)],
          id    |-> Len0(a.ToStr)]

\* func (a *Alphabet) Get(s string) int
AlphabetGet(a, s) == IF s \in DOMAIN a.ToID THEN a.ToID[s] ELSE -1

\* func (a *Alphabet) Size() int
AlphabetSize(a) == Len0(a.ToStr)

AlphaInit ==
    /\ alpha = NewAlphabet
    /\ alphaOp = [op |-> "New", arg |-> 0, ret |-> 0]
    /\ alphaSeen = << >>

AlphaIdle ==
    /\ alpha = NewAlphabet
    /\ alphaOp = [op |-> "idle", arg |-> 0, ret |-> 0]
    /\ alphaSeen = << >>

AlphaAdd ==
    /\ alphaOp.op # "idle"
    /\ \E s \in Strings :
          LET r == AlphabetAdd(alpha, s)
          IN /\ alpha' = r.alpha
             /\ alphaOp' = [op |-> "Add", arg |-> s, ret |-> r.id]
             /\ alphaSeen' = IF s \in Range0(alphaSeen) THEN alphaSeen
                             ELSE Append0(alphaSeen, s)
    /\ UNCHANGED <<vitVars, svVars, trVars, tvVars, infVars, cnVars, cvVars, dvVars, ccVars, opVars, evVars, ftVars, fbVars, pgVars, owVars, crVars, lmVars>>

AlphaGet ==
    /\ alphaOp.op # "idle"
    /\ \E s \in Strings :
          /\ alphaOp' = [op |-> "Get", arg |-> s, ret |-> AlphabetGet(alpha, s)]
          /\ UNCHANGED <<alpha, alphaSeen>>
    /\ UNCHANGED <<vitVars, svVars, trVars, tvVars, infVars, cnVars, cvVars, dvVars, ccVars, opVars, evVars, ftVars, fbVars, pgVars, owVars, crVars, lmVars>>

AlphaNext == AlphaAdd \/ AlphaGet

----------------------------------------------------------------------------
(* vectorizer.SparseVector *)

\* func NewSparseVector(dim int) SparseVector
NewSparseVector(dim) == [Indices |-> << >>, Values |-> << >>, Dim |-> dim]

\* a Set that never scans for the index and always appends
SparseSetAppendAlways(v, idx, val) ==
    [v EXCEPT !.Indices = Append0(v.Indices, idx),
              !.Values  = Append0(v.Values, val)]

\* func (sv *SparseVector) Set(idx int, val float64)
SparseSet(v, idx, val) ==
    IF \E i \in DOMAIN v.Indices : v.Indices[i] = idx
    THEN LET i == CHOOSE k \in DOMAIN v.Indices :
                      /\ v.Indices[k] = idx
                      /\ \A j \in DOMAIN v.Indices : v.Indices[j] = idx => k <= j
         IN [v EXCEPT !.Values[i] = val]
    ELSE [v EXCEPT !.Indices = Append0(v.Indices, idx),
                   !.Values  = Append0(v.Values, val)]

SvInit ==
    /\ \E dim \in 0..MaxDim : sv = NewSparseVector(dim)
    /\ svOp = [op |-> "New", idx |-> 0, val |-> 0]
    /\ svCalls = {}

SvIdle ==
    /\ sv = NewSparseVector(0)
    /\ svOp = [op |-> "idle", idx |-> 0, val |-> 0]
    /\ svCalls = {}

SvSet ==
    /\ svOp.op # "idle"
    /\ \E idx \in 0..MaxDim, val \in SvVals :
          /\ sv' = SparseSet(sv, idx, val)
          /\ svOp' = [op |-> "Set", idx |-> idx, val |-> val]
          /\ svCalls' = svCalls \cup {idx}
    /\ UNCHANGED <<vitVars, alphaVars, trVars, tvVars, infVars, cnVars, cvVars, dvVars, ccVars, opVars, evVars, ftVars, fbVars, pgVars, owVars, crVars, lmVars>>

SvNext == SvSet

----------------------------------------------------------------------------
(* crf.Model and crf.Train.  Attribute maps are sets of attribute strings  *)
(* (every value 1.0).  Objective, gradient and direction are not computed: *)
(* the sign of dot(dir, pg), the L-BFGS curvature test and the convergence *)
(* test are drawn at each iteration.  The weight vector records, per       *)
(* entry, the number of the iteration that last wrote it (0: the zero      *)
(* vector of make).                                                         *)

\* func (m *Model) TransOffset() int
TransOffset(m) == AlphabetSize(m.Attributes) * m.NumLabels

\* a weight count with one transition weight per label
NumWeightsLinear(m) == TransOffset(m) + m.NumLabels

\* func (m *Model) NumWeights() int
NumWeights(m) == TransOffset(m) + m.NumLabels * m.NumLabels

\* func (m *Model) StateFeatureIndex(attrID, labelID int) int
StateFeatureIndex(m, attrID, labelID) == attrID * m.NumLabels + labelID

\* func (m *Model) TransFeatureIndex(fromLabelID, toLabelID int) int
TransFeatureIndex(m, fromLabelID, toLabelID) ==
    TransOffset(m) + fromLabelID * m.NumLabels + toLabelID

\* the training sequences of k positions: Features and Labels of equal length
TrainSeqsOfLen(k) ==
    {[Features |-> f, Labels |-> l] :
        f \in [0..(k-1) -> SUBSET TrainAttrs], l \in [0..(k-1) -> TrainLabels]}

RECURSIVE TrainInputsOfShape(_, _)
TrainInputsOfShape(lens, n) ==
    IF n = 0 THEN {<< >>}
    ELSE {Append0(p, x) : p \in TrainInputsOfShape(lens, n - 1),
                          x \in TrainSeqsOfLen(lens[n-1])}

RECURSIVE SumTo(_, _)
SumTo(f, n) == IF n = 0 THEN 0 ELSE SumTo(f, n - 1) + f[n-1]

TrainShapes(n) == {f \in [0..(n-1) -> 0..MaxPos] : SumTo(f, n) <= MaxPos}

TrainInputs ==
    UNION {UNION {TrainInputsOfShape(lens, n) : lens \in TrainShapes(n)} :
              n \in 0..MaxSeqs}

\* func BuildLabelAlphabet(sequences []TrainingSequence) *Alphabet
RECURSIVE AddLabels(_, _, _)
AddLabels(a, labels, t) ==
    IF t >= Len0(labels) THEN a
    ELSE AddLabels(AlphabetAdd(a, labels[t]).alpha, labels, t + 1)

RECURSIVE BuildLabelAlphabetFrom(_, _, _)
BuildLabelAlphabetFrom(a, sequences, i) ==
    IF i >= Len0(sequences) THEN a
    ELSE BuildLabelAlphabetFrom(AddLabels(a, sequences[i].Labels, 0), sequences, i + 1)

\* a label alphabet built from the first sequence only
BuildLabelAlphabetFirstOnly(sequences) ==
    BuildLabelAlphabetFrom(NewAlphabet, [i \in DOMAIN sequences \cap {0} |-> sequences[i]], 0)

BuildLabelAlphabet(sequences) == BuildLabelAlphabetFrom(NewAlphabet, sequences, 0)

\* "for attr := range feats { alpha.Add(attr) }": Go ranges over a map in an
\* unspecified order, so every order of the keys is a possible outcome
RECURSIVE AddAttrsAnyOrder(_, _)
AddAttrsAnyOrder(a, feats) ==
    IF feats = {} THEN {a}
    ELSE UNION {AddAttrsAnyOrder(AlphabetAdd(a, x).alpha, feats \ {x}) : x \in feats}

RECURSIVE AddPositions(_, _, _)
AddPositions(as, features, t) ==
    IF t >= Len0(features) THEN as
    ELSE AddPositions(UNION {AddAttrsAnyOrder(a, features[t]) : a \in as},
                      features, t + 1)

\* func BuildAttributeAlphabet(sequences []TrainingSequence) *Alphabet
\* (the set of alphabets it can return)
RECURSIVE BuildAttributeAlphabetFrom(_, _, _)
BuildAttributeAlphabetFrom(as, sequences, i) ==
    IF i >= Len0(sequences) THEN as
    ELSE BuildAttributeAlphabetFrom(AddPositions(as, sequences[i].Features, 0),
                                    sequences, i + 1)

BuildAttributeAlphabet(sequences) ==
    BuildAttributeAlphabetFrom({NewAlphabet}, sequences, 0)

\* the conversion to internalSeq: features as attribute ids, labels as label ids
ToInternals(m, sequences) ==
    [i \in DOMAIN sequences |->
        [features |-> [t \in DOMAIN sequences[i].Features |->
                          {AlphabetGet(m.Attributes, attr) :
                              attr \in {x \in sequences[i].Features[t] :
                                           AlphabetGet(m.Attributes, x) >= 0}}],
         labels   |-> [t \in DOMAIN sequences[i].Features |->
                          AlphabetGet(m.Labels, sequences[i].Labels[t])]]]

\* model := NewModel(); Labels, Attributes, NumLabels; Weights = make(numWeights)
TrainNewModel(sequences, attributes) ==
    LET m0 == [Labels     |-> BuildLabelAlphabet(sequences),
               Attributes |-> attributes,
               Weights    |-> << >>,
               NumLabels  |-> 0]
        m1 == [m0 EXCEPT !.NumLabels = AlphabetSize(m0.Labels)]
    IN [m1 EXCEPT !.Weights = [i \in 0..(NumWeights(m1) - 1) |-> 0]]

\* newLBFGS(n, m): k = 0, size = 0
LbfgsM == 10
NewLBFGS == [k |-> 0, size |-> 0]

\* func (l *lbfgs) update(s, y): stores the pair only when dot(s, y) > 0
LbfgsUpdate(l, syPositive) ==
    IF ~syPositive THEN l
    ELSE [k |-> l.k + 1, size |-> IF l.size < LbfgsM THEN l.size + 1 ELSE l.size]

\* a line search that reports a step also for a non-descent direction
LineSearchStepAlways(dirDeriv) == "nonzero"

\* owlqnLineSearch: "if dirDeriv >= 0 { return 0 }", else the last tried step,
\* which is 1.0 halved at most 20 times and never 0
LineSearchStep(dirDeriv) == IF dirDeriv # "neg" THEN "zero" ELSE "nonzero"

\* a loop head that lets one more iteration through
LoopHeadOneMore(iter, config) ==
    IF iter <= config.MaxIterations THEN "objective" ELSE "return"

\* "for iter := range config.MaxIterations": where the loop goes at its head
LoopHead(iter, config) ==
    IF iter < config.MaxIterations THEN "objective" ELSE "return"

WarnLineSearch == "CRF line search failed, stopping"

\* what Train has before it returns, and the pointer it returns
NoResult == [nil |-> TRUE]
TrainResult(m) == [nil |-> FALSE, Labels |-> m.Labels, Attributes |-> m.Attributes,
                   Weights |-> m.Weights, NumLabels |-> m.NumLabels]

TrainInit ==
    /\ trSeqs \in TrainInputs
    /\ trConfig \in [MaxIterations : 0..MaxIters]
    /\ trPc = "call"
    /\ trModel = NoResult
    /\ trInternals = << >>
    /\ trIter = 0
    /\ trDirDeriv = "none"
    /\ trStep = "none"
    /\ trLbfgs = NewLBFGS
    /\ trStop = "none"
    /\ trLog = {}
    /\ trRet = NoResult

TrainIdle ==
    /\ trSeqs = << >>
    /\ trConfig = [MaxIterations |-> 0]
    /\ trPc = "idle"
    /\ trModel = NoResult
    /\ trInternals = << >>
    /\ trIter = 0
    /\ trDirDeriv = "none"
    /\ trStep = "none"
    /\ trLbfgs = NewLBFGS
    /\ trStop = "none"
    /\ trLog = {}
    /\ trRet = NoResult

trOthers == <<vitVars, alphaVars, svVars, tvVars, infVars, cnVars, cvVars, dvVars, ccVars, opVars, evVars, ftVars, fbVars, pgVars, owVars, crVars, lmVars>>

\* lines 223-266: alphabets, weights, internals, L-BFGS memory
TrainPrepare ==
    /\ trPc = "call"
    /\ \E attributes \in BuildAttributeAlphabet(trSeqs) :
          LET m == TrainNewModel(trSeqs, attributes)
          IN /\ trModel' = m
             /\ trInternals' = ToInternals(m, trSeqs)
    /\ trLbfgs' = NewLBFGS
    /\ trIter' = 0
    /\ trPc' = LoopHead(0, trConfig)
    /\ trStop' = IF LoopHead(0, trConfig) = "return" THEN "maxiter" ELSE "none"
    /\ UNCHANGED <<trSeqs, trConfig, trDirDeriv, trStep, trLog, trRet>>
    /\ UNCHANGED trOthers

\* lines 269-396: objective, gradient, pseudo-gradient, direction.  With no
\* weights dot(dir, pg) is the empty sum 0.
TrainObjective ==
    /\ trPc = "objective"
    /\ \E d \in {"neg", "nonneg"} :
          /\ (NumWeights(trModel) = 0 => d = "nonneg")
          /\ trDirDeriv' = d
    /\ trPc' = "linesearch"
    /\ UNCHANGED <<trSeqs, trConfig, trModel, trInternals, trIter, trStep, trLbfgs,
                   trStop, trLog, trRet>>
    /\ UNCHANGED trOthers

\* lines 399-451: the line search, and "if step == 0 { slog.Warn(...); break }"
TrainLineSearch ==
    /\ trPc = "linesearch"
    /\ LET step == LineSearchStep(trDirDeriv)
       IN /\ trStep' = step
          /\ IF step = "zero"
             THEN /\ trLog' = trLog \cup {WarnLineSearch}
                  /\ trStop' = "linesearch"
                  /\ trPc' = "return"
             ELSE /\ trPc' = "update"
                  /\ UNCHANGED <<trLog, trStop>>
    /\ UNCHANGED <<trSeqs, trConfig, trModel, trInternals, trIter, trDirDeriv,
                   trLbfgs, trRet>>
    /\ UNCHANGED trOthers

\* lines 453-467: w[i] += step * dir[i], projection; step is not read again
TrainUpdateWeights ==
    /\ trPc = "update"
    /\ trModel' = [trModel EXCEPT !.Weights =
                      [i \in DOMAIN trModel.Weights |-> trIter + 1]]
    /\ trStep' = "none"
    /\ trDirDeriv' = "none"
    /\ trPc' = "history"
    /\ UNCHANGED <<trSeqs, trConfig, trInternals, trIter, trLbfgs, trStop, trLog,
                   trRet>>
    /\ UNCHANGED trOthers

\* lines 469-551: s, newGrad, newPG, y, lbfgs.update(s, y)
TrainUpdateHistory ==
    /\ trPc = "history"
    /\ \E syPositive \in BOOLEAN : trLbfgs' = LbfgsUpdate(trLbfgs, syPositive)
    /\ trPc' = "converge"
    /\ UNCHANGED <<trSeqs, trConfig, trModel, trInternals, trIter, trDirDeriv,
                   trStep, trStop, trLog, trRet>>
    /\ UNCHANGED trOthers

\* lines 553-564: "if maxGrad < config.Epsilon { break }", else the next iter
TrainConvergence ==
    /\ trPc = "converge"
    /\ \E converged \in BOOLEAN :
          IF converged
          THEN /\ trStop' = "converged"
               /\ trPc' = "return"
               /\ UNCHANGED trIter
          ELSE /\ trIter' = trIter + 1
               /\ trPc' = LoopHead(trIter + 1, trConfig)
               /\ trStop' = IF LoopHead(trIter + 1, trConfig) = "return"
                            THEN "maxiter" ELSE "none"
    /\ UNCHANGED <<trSeqs, trConfig, trModel, trInternals, trDirDeriv, trStep,
                   trLbfgs, trLog, trRet>>
    /\ UNCHANGED trOthers

\* lines 566-567: model.Weights = w; return model
TrainReturn ==
    /\ trPc = "return"
    /\ trRet' = TrainResult(trModel)
    /\ trPc' = "returned"
    /\ UNCHANGED <<trSeqs, trConfig, trModel, trInternals, trIter, trDirDeriv,
                   trStep, trLbfgs, trStop, trLog>>
    /\ UNCHANGED trOthers

TrainNext ==
    \/ TrainPrepare
    \/ TrainObjective
    \/ TrainLineSearch
    \/ TrainUpdateWeights
    \/ TrainUpdateHistory
    \/ TrainConvergence
    \/ TrainReturn

----------------------------------------------------------------------------
(* textutil, CountVectorizer and TfidfVectorizer.  A string is a sequence  *)
(* of characters; a []string is a sequence of strings.                     *)

TextChars == {"a", "B", " "}

\* the byte order sort.Strings compares by
CharCode(c) ==
    CASE c = " " -> 32 [] c = "=" -> 61 [] c = "B" -> 66 [] c = "a" -> 97 [] c = "b" -> 98

RECURSIVE StrLess(_, _)
StrLess(u, v) ==
    IF u = << >> THEN v # << >>
    ELSE IF v = << >> THEN FALSE
    ELSE IF Head(u) # Head(v) THEN CharCode(Head(u)) < CharCode(Head(v))
    ELSE StrLess(Tail(u), Tail(v))

\* strings.ToLower
ToLowerChar(c) == IF c = "B" THEN "b" ELSE c
ToLower(text) == [i \in DOMAIN text |-> ToLowerChar(text[i])]

\* the class [\p{L}\p{N}_] of tokenizeRe
IsWordChar(c) == c # " "

\* func Tokenize(text string) []string: the maximal runs of word characters
RECURSIVE TokenizeFrom(_, _, _, _)
TokenizeFrom(text, i, cur, acc) ==
    IF i > Len(text) THEN (IF cur = << >> THEN acc ELSE Append(acc, cur))
    ELSE IF IsWordChar(text[i])
         THEN TokenizeFrom(text, i + 1, Append(cur, text[i]), acc)
         ELSE TokenizeFrom(text, i + 1, << >>,
                           IF cur = << >> THEN acc ELSE Append(acc, cur))

Tokenize(text) == TokenizeFrom(text, 1, << >>, << >>)

\* strings.Join(tokens, " ")
RECURSIVE JoinSpace(_)
JoinSpace(tokens) ==
    IF tokens = << >> THEN << >>
    ELSE IF Len(tokens) = 1 THEN tokens[1]
    ELSE tokens[1] \o <<" ">> \o JoinSpace(Tail(tokens))

\* func TokenNgrams(tokens []string, minN, maxN int) []string
RECURSIVE TokenNgramsFrom(_, _, _)
TokenNgramsFrom(tokens, n, maxN) ==
    IF ~(n <= maxN /\ n <= Len(tokens)) THEN << >>
    ELSE [i \in 1..(Len(tokens) - n + 1) |-> JoinSpace(SubSeq(tokens, i, i + n - 1))]
         \o TokenNgramsFrom(tokens, n + 1, maxN)

TokenNgrams(tokens, minN, maxN) == TokenNgramsFrom(tokens, minN, maxN)

\* func Ngrams(s string, minN, maxN int) []string
RECURSIVE NgramsFrom(_, _, _)
NgramsFrom(str, n, maxN) ==
    IF ~(n <= maxN /\ n <= Len(str)) THEN << >>
    ELSE [i \in 1..(Len(str) - n + 1) |-> SubSeq(str, i, i + n - 1)]
         \o NgramsFrom(str, n + 1, maxN)

Ngrams(str, minN, maxN) == NgramsFrom(str, minN, maxN)

\* func charWbNgrams(text string, minN, maxN int) []string
RECURSIVE CharWbOver(_, _, _)
CharWbOver(tokens, minN, maxN) ==
    IF tokens = << >> THEN << >>
    ELSE Ngrams(<<" ">> \o Head(tokens) \o <<" ">>, minN, maxN)
         \o CharWbOver(Tail(tokens), minN, maxN)

CharWbNgrams(text, minN, maxN) == CharWbOver(Tokenize(text), minN, maxN)

\* func (cv *CountVectorizer) analyze(text string) []string
Analyze(cv, text) ==
    LET lower == ToLower(text)
    IN IF cv.Analyzer = "char_wb"
       THEN CharWbNgrams(lower, cv.NgramRange[1], cv.NgramRange[2])
       ELSE TokenNgrams(Tokenize(lower), cv.NgramRange[1], cv.NgramRange[2])

SeqRange(q) == {q[i] : i \in DOMAIN q}

\* func NewCountVectorizer(ngramRange, binary, analyzer, minDF)
NewCountVectorizer(ngramRange, binary, analyzer, minDF) ==
    [Vocabulary |-> << >>,
     NgramRange |-> ngramRange,
     Binary     |-> binary,
     Analyzer   |-> IF analyzer = "" THEN "word" ELSE analyzer,
     MinDF      |-> IF minDF < 1 THEN 1 ELSE minDF]

\* dfCounts of a Fit without the per-document seen map: every occurrence counts
DfCountOccurrences(cv, corpus, term) ==
    Cardinality({p \in UNION {{<<i, j>> : j \in DOMAIN Analyze(cv, corpus[i])} :
                                 i \in DOMAIN corpus} :
                    Analyze(cv, corpus[p[1]])[p[2]] = term})

\* dfCounts of Fit: the number of documents a term occurs in
DfCount(cv, corpus, term) ==
    Cardinality({i \in DOMAIN corpus : term \in SeqRange(Analyze(cv, corpus[i]))})

\* a Fit that numbers the retained terms in the order of their first
\* occurrence in the corpus (no sort.Strings)
CountFitFirstSeen(cv, corpus) ==
    LET occ(f) == {p \in UNION {{<<i, j>> : j \in DOMAIN Analyze(cv, corpus[i])} :
                                   i \in DOMAIN corpus} :
                      Analyze(cv, corpus[p[1]])[p[2]] = f}
        before(p, q) == p[1] < q[1] \/ (p[1] = q[1] /\ p[2] < q[2])
        first(f) == CHOOSE p \in occ(f) : \A q \in occ(f) : q = p \/ before(p, q)
        seen  == UNION {SeqRange(Analyze(cv, corpus[i])) : i \in DOMAIN corpus}
        terms == {f \in seen : DfCount(cv, corpus, f) >= cv.MinDF}
    IN [cv EXCEPT !.Vocabulary =
           [term \in terms |-> Cardinality({u \in terms : before(first(u), first(term))})]]

\* func (cv *CountVectorizer) Fit(corpus []string): the terms with
\* count >= MinDF, sorted, numbered in that order
CountFit(cv, corpus) ==
    LET seen  == UNION {SeqRange(Analyze(cv, corpus[i])) : i \in DOMAIN corpus}
        terms == {f \in seen : DfCount(cv, corpus, f) >= cv.MinDF}
    IN [cv EXCEPT !.Vocabulary =
           [term \in terms |-> Cardinality({u \in terms : StrLess(u, term)})]]

\* func (cv *CountVectorizer) VocabSize() int
CountVocabSize(cv) == Cardinality(DOMAIN cv.Vocabulary)

\* counts of Transform: how often the features of the text hit column idx
CountOf(cv, features, idx) ==
    Cardinality({i \in DOMAIN features :
                    /\ features[i] \in DOMAIN cv.Vocabulary
                    /\ cv.Vocabulary[features[i]] = idx})

\* "for idx, count := range counts { sv.Set(idx, ...) }": the map is ranged
\* over in an unspecified order, so the entries can come out in any order
RECURSIVE SetAllAnyOrder(_, _, _, _)
SetAllAnyOrder(cv, features, v, todo) ==
    IF todo = {} THEN {v}
    ELSE UNION {SetAllAnyOrder(cv, features,
                    SparseSet(v, idx, IF cv.Binary THEN 1 ELSE CountOf(cv, features, idx)),
                    todo \ {idx}) : idx \in todo}

\* the keys of counts in Transform: the columns the features of the text hit
CountHits(cv, text) ==
    {cv.Vocabulary[f] : f \in SeqRange(Analyze(cv, text)) \cap DOMAIN cv.Vocabulary}

\* func (cv *CountVectorizer) Transform(text string) SparseVector
\* (the set of vectors it can return)
CountTransform(cv, text) ==
    SetAllAnyOrder(cv, Analyze(cv, text), NewSparseVector(CountVocabSize(cv)),
                   CountHits(cv, text))

\* func NewTfidfVectorizer(ngramRange, minDF, binary, analyzer, stopWords)
NewTfidfVectorizer(ngramRange, minDF, binary, analyzer, stopWords) ==
    [CountVec  |-> NewCountVectorizer(ngramRange, binary, analyzer, minDF),
     IDF       |-> << >>,
     StopWords |-> stopWords]

\* func (tv *TfidfVectorizer) filterText(text string) string: both branches
\* return the text as it is
FilterText(t, text) ==
    IF t.StopWords = {} \/ t.CountVec.Analyzer = "char_wb" THEN text
    ELSE text

\* func (tv *TfidfVectorizer) filterCorpus(corpus []string) []string
FilterCorpus(t, corpus) ==
    IF t.StopWords = {} THEN corpus
    ELSE IF t.CountVec.Analyzer = "char_wb" THEN corpus
    ELSE [i \in DOMAIN corpus |-> FilterText(t, corpus[i])]

\* math.Log((1+nDocs)/(1+df)) + 1, kept as its two arguments
IdfValue(nDocs, df) == [num |-> 1 + nDocs, den |-> 1 + df]

\* func (tv *TfidfVectorizer) Fit(corpus []string); df[idx] counts the
\* documents whose Transform has an entry at idx, in whatever order
TfidfFitted(t, corpus) ==
    LET filtered == FilterCorpus(t, corpus)
        cv == CountFit(t.CountVec, filtered)
        hits == [i \in DOMAIN filtered |-> CountHits(cv, filtered[i])]
    IN [t EXCEPT !.CountVec = cv,
                 !.IDF = [idx \in 0..(CountVocabSize(cv) - 1) |->
                             IdfValue(Len(filtered),
                                      Cardinality({i \in DOMAIN hits : idx \in hits[i]}))]]

\* the value of an entry after "sv.Values[i] *= tv.IDF[idx]" and the division
\* by the L2 norm (the norm of a vector with an entry is positive)
TfidfValue(t, idx, count) ==
    [count |-> count,
     idf   |-> IF idx < Len0(t.IDF) THEN t.IDF[idx] ELSE IdfValue(0, 0),
     scaled |-> idx < Len0(t.IDF),
     normalized |-> TRUE]

\* func (tv *TfidfVectorizer) Transform(text string) SparseVector
\* (the set of vectors it can return)
TfidfTransform(t, text) ==
    {[v EXCEPT !.Values = [i \in DOMAIN v.Values |->
                              TfidfValue(t, v.Indices[i], v.Values[i])]] :
        v \in CountTransform(t.CountVec, FilterText(t, text))}

TextsUpTo(n) == UNION {[1..k -> TextChars] : k \in 0..n}

RECURSIVE CorporaOf(_, _)
CorporaOf(nDocs, chars) ==
    IF nDocs = 0 THEN {<< >>}
    ELSE UNION {{<<d>> \o rest : rest \in CorporaOf(nDocs - 1, chars - Len(d))} :
                   d \in TextsUpTo(chars)}

TfidfCorpora == UNION {CorporaOf(n, MaxCorpusChars) : n \in 0..MaxDocs}

\* analyzer and n-gram range, as the pipelines pair them: word n-grams of
\* 1 to 2 tokens, character n-grams of one length inside padded words
TfidfSettings == {<<"word", <<1, 1>> >>, <<"word", <<1, 2>> >>, <<"char_wb", <<2, 2>> >>}

TfidfInit ==
    /\ tvCorpus \in TfidfCorpora
    /\ \E setting \in TfidfSettings, minDF \in {1, 2}, stopWords \in {{}, {<<"a">>}} :
          tv = NewTfidfVectorizer(setting[2], minDF, TRUE, setting[1], stopWords)
    /\ tvPc = "new"
    /\ tvText = << >>
    /\ tvOut = NewSparseVector(0)

TfidfIdle ==
    /\ tvCorpus = << >>
    /\ tv = NewTfidfVectorizer(<<1, 1>>, 1, TRUE, "word", {})
    /\ tvPc = "idle"
    /\ tvText = << >>
    /\ tvOut = NewSparseVector(0)

tvOthers == <<vitVars, alphaVars, svVars, trVars, infVars, cnVars, cvVars, dvVars, ccVars, opVars, evVars, ftVars, fbVars, pgVars, owVars, crVars, lmVars>>

\* tv.Fit(corpus)
TfidfFit ==
    /\ tvPc = "new"
    /\ tv' = TfidfFitted(tv, tvCorpus)
    /\ tvPc' = "fitted"
    /\ UNCHANGED <<tvCorpus, tvText, tvOut>>
    /\ UNCHANGED tvOthers

\* tv.Transform(text) on the fitted vectorizer; a run follows one call
TfidfDoTransform ==
    /\ tvPc = "fitted"
    /\ \E text \in TextsUpTo(MaxTextLen) :
          /\ tvText' = text
          /\ tvOut' \in TfidfTransform(tv, text)
    /\ tvPc' = "transformed"
    /\ UNCHANGED <<tvCorpus, tv>>
    /\ UNCHANGED tvOthers

TfidfNext == TfidfFit \/ TfidfDoTransform

-----------------------------------------------------------------------------
(* CountVectorizer.Fit on its own: a corpus and a vectorizer are drawn,    *)
(* Fit runs once.  A minDF of 0 is what NewCountVectorizer raises to 1.    *)
CountMinDFs == 0..2

CountInit ==
    /\ cvCorpus \in TfidfCorpora
    /\ \E setting \in TfidfSettings, minDF \in CountMinDFs :
          cvec = NewCountVectorizer(setting[2], FALSE, setting[1], minDF)
    /\ cvPc = "new"

CountIdle ==
    /\ cvCorpus = << >>
    /\ cvec = NewCountVectorizer(<<1, 1>>, FALSE, "word", 1)
    /\ cvPc = "idle"

cvOthers == <<vitVars, alphaVars, svVars, trVars, tvVars, infVars, cnVars, dvVars, ccVars, opVars, evVars, ftVars, fbVars, pgVars, owVars, crVars, lmVars>>

\* cv.Fit(corpus)
CountDoFit ==
    /\ cvPc = "new"
    /\ cvec' = CountFit(cvec, cvCorpus)
    /\ cvPc' = "fitted"
    /\ UNCHANGED cvCorpus
    /\ UNCHANGED cvOthers

CountNext == CountDoFit

-----------------------------------------------------------------------------
(* DictVectorizer.  A dict is a function from names to values; a value is  *)
(* a string, a boolean or a number.  Ranging over a Go map visits its      *)
(* entries in any order.                                                   *)
MaxDictEntries == 3    \* entries of all the dicts handed to Fit, together

DictNames == {<<"a">>, <<"a", "=", "B">>}
\* a value: its dynamic type, and the string or the number it holds (a
\* boolean holds 1 for true and 0 for false)
StringValue(str) == [kind |-> "string", str |-> str, num |-> 0]
BoolValue(b) == [kind |-> "bool", str |-> << >>, num |-> IF b THEN 1 ELSE 0]
NumberValue(n) == [kind |-> "number", str |-> << >>, num |-> n]
DictValues ==
    {StringValue(<<"B">>), StringValue(<<"a">>), BoolValue(TRUE), BoolValue(FALSE),
     NumberValue(2)}
Dicts == UNION {[names -> DictValues] : names \in SUBSET DictNames}

\* the []map[string]any of n dicts with at most the given number of entries
RECURSIVE DictDataOf(_, _)
DictDataOf(n, entries) ==
    IF n = 0 THEN {<< >>}
    ELSE UNION {{<<d>> \o rest :
                    rest \in DictDataOf(n - 1, entries - Cardinality(DOMAIN d))} :
                   d \in {e \in Dicts : Cardinality(DOMAIN e) <= entries}}

DictData == UNION {DictDataOf(n, MaxDictEntries) : n \in 0..MaxDocs}

\* func NewDictVectorizer() *DictVectorizer
NewDictVectorizer == [FeatureNames |-> << >>, FeatureIndex |-> << >>]

\* a featureKey that never appends the value
FeatureKeyBare(name, value) == name

\* func (dv *DictVectorizer) featureKey(name string, value any) string
FeatureKey(name, value) ==
    IF value.kind = "string" THEN name \o <<"=">> \o value.str ELSE name

\* func (dv *DictVectorizer) featureValue(value any) float64
FeatureValue(value) ==
    CASE value.kind = "bool"   -> IF value.num = 1 THEN 1 ELSE 0
      [] value.kind = "number" -> value.num
      [] value.kind = "string" -> 1

\* sort.Strings of the keys of a set of strings, as a slice
SortStrings(set) ==
    [i \in 0..(Cardinality(set) - 1) |->
        CHOOSE f \in set : Cardinality({g \in set : StrLess(g, f)}) = i]

\* func (dv *DictVectorizer) Fit(data []map[string]any)
DictFit(dv, data) ==
    LET featureSet == UNION {{FeatureKey(k, data[i][k]) : k \in DOMAIN data[i]} :
                                i \in DOMAIN data}
        names == SortStrings(featureSet)
    IN [FeatureNames |-> names,
        FeatureIndex |-> [f \in featureSet |-> CHOOSE i \in DOMAIN names : names[i] = f]]

\* func (dv *DictVectorizer) VocabSize() int
DictVocabSize(dv) == Len0(dv.FeatureNames)

\* the loop of Transform over the entries of d not yet visited
RECURSIVE DictSetAnyOrder(_, _, _, _)
DictSetAnyOrder(dv, d, v, todo) ==
    IF todo = {} THEN {v}
    ELSE UNION {LET key == FeatureKey(k, d[k])
                IN DictSetAnyOrder(dv, d,
                       IF key \in DOMAIN dv.FeatureIndex
                       THEN SparseSet(v, dv.FeatureIndex[key], FeatureValue(d[k]))
                       ELSE v,
                       todo \ {k}) : k \in todo}

\* func (dv *DictVectorizer) Transform(d map[string]any) SparseVector
\* (the set of vectors it can return)
DictTransform(dv, d) ==
    DictSetAnyOrder(dv, d, NewSparseVector(Len0(dv.FeatureNames)), DOMAIN d)

DictInit ==
    /\ dvData \in DictData
    /\ dvec = NewDictVectorizer
    /\ dvPc = "new"
    /\ dvInput = << >>
    /\ dvOut = NewSparseVector(0)

DictIdle ==
    /\ dvData = << >>
    /\ dvec = NewDictVectorizer
    /\ dvPc = "idle"
    /\ dvInput = << >>
    /\ dvOut = NewSparseVector(0)

dvOthers == <<vitVars, alphaVars, svVars, trVars, tvVars, infVars, cnVars, cvVars, ccVars, opVars, evVars, ftVars, fbVars, pgVars, owVars, crVars, lmVars>>

\* dv.Fit(data)
DictDoFit ==
    /\ dvPc = "new"
    /\ dvec' = DictFit(dvec, dvData)
    /\ dvPc' = "fitted"
    /\ UNCHANGED <<dvData, dvInput, dvOut>>
    /\ UNCHANGED dvOthers

\* dv.Transform(d)
DictDoTransform ==
    /\ dvPc = "fitted"
    /\ \E d \in Dicts :
          /\ dvInput' = d
          /\ dvOut' \in DictTransform(dvec, d)
    /\ dvPc' = "transformed"
    /\ UNCHANGED <<dvData, dvec>>
    /\ UNCHANGED dvOthers

DictNext == DictDoFit \/ DictDoTransform

----------------------------------------------------------------------------
(* crf inference: ComputeStateScores, ComputeTransScores, Predict and      *)
(* PredictMarginals.  A feature map is a function from attribute strings   *)
(* to values.  A call either returns a value or panics on an index out of  *)
(* range.  ForwardBackward is not computed: its result is named by the     *)
(* two score matrices it is a function of.                                 *)

InfStrings == {1, 2}       \* the attribute strings of the inputs
InfTrainedStrings == {1}   \* those of them that training data can have held
InfVals == {1, 2}          \* the feature values of the inputs
InfWeightVals == {-1, 1}   \* the weights of the models

Returned(v) == [panic |-> FALSE, val |-> v]
Panicked == [panic |-> TRUE, val |-> << >>]

RECURSIVE SumFn(_)
SumFn(f) ==
    IF DOMAIN f = {} THEN 0
    ELSE LET x == CHOOSE x \in DOMAIN f : TRUE
         IN f[x] + SumFn([y \in DOMAIN f \ {x} |-> f[y]])

\* a loop that skips no attribute
SkipAttrNever(attrID) == FALSE

\* "if attrID < 0 { continue }"
SkipAttr(attrID) == attrID < 0

\* the attributes of one position whose weights are read
UsedAttrs(m, feats) ==
    {attr \in DOMAIN feats : ~SkipAttr(AlphabetGet(m.Attributes, attr))}

\* m.Weights[idx] is read when idx < len(m.Weights); a negative idx panics
StateReadPanics(m, feats) ==
    \E attr \in UsedAttrs(m, feats), y \in 0..(m.NumLabels - 1) :
        LET idx == StateFeatureIndex(m, AlphabetGet(m.Attributes, attr), y)
        IN idx < Len0(m.Weights) /\ idx < 0

\* scores[t][y] += m.Weights[idx] * val, over the attributes of position t
StateScoreAt(m, feats, y) ==
    SumFn([attr \in UsedAttrs(m, feats) |->
              LET idx == StateFeatureIndex(m, AlphabetGet(m.Attributes, attr), y)
              IN IF idx < Len0(m.Weights) THEN m.Weights[idx] * feats[attr] ELSE 0])

\* func (m *Model) ComputeStateScores(features []map[string]float64) [][]float64
ComputeStateScores(m, features) ==
    IF \E t \in DOMAIN features : StateReadPanics(m, features[t])
    THEN Panicked
    ELSE Returned([t \in DOMAIN features |->
                      [y \in 0..(m.NumLabels - 1) |-> StateScoreAt(m, features[t], y)]])

\* func (m *Model) ComputeTransScores() [][]float64
ComputeTransScores(m) ==
    [i \in 0..(m.NumLabels - 1) |->
        [j \in 0..(m.NumLabels - 1) |->
            IF TransFeatureIndex(m, i, j) < Len0(m.Weights)
            THEN m.Weights[TransFeatureIndex(m, i, j)] ELSE 0]]

\* the zero value of string
EmptyString == 0

\* "labels[i] = m.Labels.ToStr[id]" when id < len(m.Labels.ToStr)
PathLabels(m, path) ==
    [i \in DOMAIN path |->
        IF path[i] < Len0(m.Labels.ToStr) THEN m.Labels.ToStr[path[i]] ELSE EmptyString]

\* func (m *Model) Predict(features []map[string]float64) []string
Predict(m, features) ==
    LET ss == ComputeStateScores(m, features)
    IN IF ss.panic THEN Panicked
       ELSE Returned(PathLabels(m, Viterbi(ss.val, ComputeTransScores(m),
                                           Len0(features), m.NumLabels).path))

\* func ForwardBackward(stateScores, transScores [][]float64) ForwardBackwardResult
ForwardBackward(ss, ts) == [stateScores |-> ss, transScores |-> ts]

\* "result[t][m.Labels.ToStr[y]] = fb.Marginals[t][y]" for y := range m.NumLabels
MarginalMaps(m, features, fb) ==
    LET ys == {y \in 0..(m.NumLabels - 1) : y < Len0(m.Labels.ToStr)}
    IN [t \in DOMAIN features |->
          [lab \in {m.Labels.ToStr[y] : y \in ys} |->
              [fb |-> fb, t |-> t,
               y  |-> CHOOSE y \in ys :
                         /\ m.Labels.ToStr[y] = lab
                         /\ \A z \in ys : m.Labels.ToStr[z] = lab => z <= y]]]

\* func (m *Model) PredictMarginals(features) []map[string]float64
PredictMarginals(m, features) ==
    LET ss == ComputeStateScores(m, features)
    IN IF ss.panic THEN Panicked
       ELSE Returned(MarginalMaps(m, features,
                                  ForwardBackward(ss.val, ComputeTransScores(m))))

\* the alphabets that Add builds from up to n distinct strings of S
RECURSIVE AlphabetsOver(_, _)
AlphabetsOver(S, n) ==
    IF n = 0 THEN {NewAlphabet}
    ELSE LET shorter == AlphabetsOver(S, n - 1)
         IN shorter \cup {AlphabetAdd(a, x).alpha : a \in shorter, x \in S}

\* the trained models: alphabets as Add builds them, NumLabels = Labels.Size(),
\* len(Weights) = NumWeights()
InfModelsOf(L, attributes) ==
    LET m0 == [Labels     |-> CHOOSE a \in AlphabetsOver(1..L, L) : AlphabetSize(a) = L
                                 /\ \A i \in 0..(L-1) : a.ToStr[i] = i + 1,
               Attributes |-> attributes,
               Weights    |-> << >>,
               NumLabels  |-> L]
    IN {[m0 EXCEPT !.Weights = w] : w \in [0..(NumWeights(m0) - 1) -> InfWeightVals]}

InfModels ==
    UNION {InfModelsOf(c[1], c[2]) :
              c \in {d \in (1..MaxInfWeights) \X
                              AlphabetsOver(InfTrainedStrings, Cardinality(InfTrainedStrings)) :
                        AlphabetSize(d[2]) * d[1] + d[1] * d[1] <= MaxInfWeights}}

InfFeatureMaps == UNION {[S -> InfVals] : S \in SUBSET InfStrings}
InfInputs == UNION {[0..(T-1) -> InfFeatureMaps] : T \in 0..MaxInfT}

InferInit ==
    /\ infModel \in InfModels
    /\ infInput \in InfInputs
    /\ infPc = "call"
    /\ infOp = "none"
    /\ infRes = Returned(<< >>)

InferIdle ==
    /\ infModel = [Labels |-> NewAlphabet, Attributes |-> NewAlphabet,
                   Weights |-> << >>, NumLabels |-> 0]
    /\ infInput = << >>
    /\ infPc = "idle"
    /\ infOp = "none"
    /\ infRes = Returned(<< >>)

infOthers == <<vitVars, alphaVars, svVars, trVars, tvVars, cnVars, cvVars, dvVars, ccVars, opVars, evVars, ftVars, fbVars, pgVars, owVars, crVars, lmVars>>

\* m.ComputeStateScores(features)
InferStateScores ==
    /\ infPc = "call"
    /\ infOp' = "ComputeStateScores"
    /\ infRes' = ComputeStateScores(infModel, infInput)
    /\ infPc' = "done"
    /\ UNCHANGED <<infModel, infInput>>
    /\ UNCHANGED infOthers

\* m.Predict(features)
InferPredict ==
    /\ infPc = "call"
    /\ infOp' = "Predict"
    /\ infRes' = Predict(infModel, infInput)
    /\ infPc' = "done"
    /\ UNCHANGED <<infModel, infInput>>
    /\ UNCHANGED infOthers

\* m.PredictMarginals(features)
InferPredictMarginals ==
    /\ infPc = "call"
    /\ infOp' = "PredictMarginals"
    /\ infRes' = PredictMarginals(infModel, infInput)
    /\ infPc' = "done"
    /\ UNCHANGED <<infModel, infInput>>
    /\ UNCHANGED infOthers

InferNext == InferStateScores \/ InferPredict \/ InferPredictMarginals

----------------------------------------------------------------------------
(* Concurrent inference.  Several calls run against one crf model and one  *)
(* form-type model; a step of a call is one of the reads of the shared     *)
(* model the method makes, and the calls interleave at these steps.  There *)
(* is no lock in the inference code.  A form is the strings its            *)
(* extractors return, one per pipeline.                                     *)

Procs == 1..MaxProcs

\* a Get that enters the string it misses
AlphabetAfterGetAdds(a, str) == AlphabetAdd(a, str).alpha

\* the alphabet after a.Get(str): Get assigns to neither ToID nor ToStr
AlphabetAfterGet(a, str) == a

RECURSIVE AlphabetAfterGets(_, _)
AlphabetAfterGets(a, strs) ==
    IF strs = {} THEN a
    ELSE LET x == CHOOSE x \in strs : \A z \in strs : x <= z
         IN AlphabetAfterGets(AlphabetAfterGet(a, x), strs \ {x})

\* the model after m.ComputeStateScores(features): its only calls on the
\* model are m.Attributes.Get, m.StateFeatureIndex and reads of m.Weights
CrfAfterStateScores(m, features) ==
    [m EXCEPT !.Attributes =
        AlphabetAfterGets(m.Attributes, UNION {DOMAIN features[t] : t \in DOMAIN features})]

\* func (sv SparseVector) Dot(dense []float64) float64
Dot(v, dense) ==
    SumFn([i \in DOMAIN v.Indices |->
              IF v.Indices[i] < Len0(dense) THEN v.Values[i] * dense[v.Indices[i]] ELSE 0])

\* the inner loop of ConcatSparse without the offset
RECURSIVE AppendEntriesNoOffset(_, _, _, _)
AppendEntriesNoOffset(acc, v, i, offset) ==
    IF i >= Len0(v.Indices) THEN acc
    ELSE AppendEntriesNoOffset([acc EXCEPT !.Indices = Append0(acc.Indices, v.Indices[i]),
                                           !.Values  = Append0(acc.Values, v.Values[i])],
                               v, i + 1, offset)

\* the second loop of ConcatSparse: the entries of v appended with the offset
RECURSIVE AppendEntries(_, _, _, _)
AppendEntries(acc, v, i, offset) ==
    IF i >= Len0(v.Indices) THEN acc
    ELSE AppendEntries([acc EXCEPT !.Indices = Append0(acc.Indices, v.Indices[i] + offset),
                                   !.Values  = Append0(acc.Values, v.Values[i])],
                       v, i + 1, offset)

RECURSIVE ConcatFrom(_, _, _, _)
ConcatFrom(vectors, k, offset, acc) ==
    IF k >= Len0(vectors) THEN [acc EXCEPT !.Dim = offset]
    ELSE ConcatFrom(vectors, k + 1, offset + vectors[k].Dim,
                    AppendEntries(acc, vectors[k], 0, offset))

\* func ConcatSparse(vectors []SparseVector) SparseVector
ConcatSparse(vectors) == ConcatFrom(vectors, 0, 0, NewSparseVector(0))

\* the float64 entries of a vector TfidfVectorizer.Transform returns with at
\* most one entry: x / sqrt(x * x) is 1.0
UnitEntries(v) == [v EXCEPT !.Values = [i \in DOMAIN v.Values |-> 1]]

\* one case of the switch in extractFeatures: the vectors pipeline i can give
ExtractOne(ft, i, form) ==
    CASE ft.vecTypes[i] = "dict" -> DictTransform(ft.dictVecs[i], form[i])
      [] ft.vecTypes[i] = "count" -> CountTransform(ft.countVecs[i], form[i])
      [] ft.vecTypes[i] = "tfidf" ->
            {UnitEntries(v) : v \in {u \in TfidfTransform(ft.tfidfVecs[i], form[i]) :
                                        Len0(u.Indices) <= 1}}
      [] OTHER -> {NewSparseVector(0)}

\* func softmax(logits []float64) []float64: probs[i] is exp(shift) over the
\* sum of exp over all shifts, kept as that pair
MaxOf(f) == CHOOSE x \in Range0(f) : \A y \in Range0(f) : y <= x
Softmax(logits) ==
    [i \in DOMAIN logits |->
        [shift |-> logits[i] - MaxOf(logits),
         all   |-> [j \in DOMAIN logits |-> logits[j] - MaxOf(logits)]]]

\* the rest of ClassifyProba, from the feature vector
ProbaOf(ft, features) ==
    LET logits == [c \in DOMAIN ft.Classes |->
                      Dot(features, ft.Coef[c]) + ft.Intercept[c]]
        probs == Softmax(logits)
    IN [cls \in Range0(ft.Classes) |->
           probs[CHOOSE c \in DOMAIN ft.Classes :
                    /\ ft.Classes[c] = cls
                    /\ \A d \in DOMAIN ft.Classes : ft.Classes[d] = cls => d <= c]]

\* "if prob > bestProb" in Classify; bestProb starts at -1.0
NoProb == [shift |-> 0, all |-> << >>]
ProbGreater(p, best) == best = NoProb \/ p.shift > best.shift

\* the loop of Classify, which ranges over the map proba in any order
RECURSIVE ClassifyScan(_, _, _, _)
ClassifyScan(proba, todo, bestProb, bestClass) ==
    IF todo = {} THEN {bestClass}
    ELSE UNION {IF ProbGreater(proba[cls], bestProb)
                THEN ClassifyScan(proba, todo \ {cls}, proba[cls], cls)
                ELSE ClassifyScan(proba, todo \ {cls}, bestProb, bestClass) :
                   cls \in todo}

ClassifyFrom(proba) == ClassifyScan(proba, DOMAIN proba, NoProb, "")

\* the feature vectors extractFeatures can build from the first n pipelines
RECURSIVE ExtractedUpTo(_, _, _)
ExtractedUpTo(ft, form, n) ==
    IF n = 0 THEN {<< >>}
    ELSE {Append0(vs, v) : vs \in ExtractedUpTo(ft, form, n - 1),
                           v \in ExtractOne(ft, n - 1, form)}

\* func (m *FormTypeModel) ClassifyProba(form) map[string]float64
ClassifyProba(ft, form) ==
    {ProbaOf(ft, ConcatSparse(vs)) : vs \in ExtractedUpTo(ft, form, Len0(ft.vecTypes))}

\* func (m *FormTypeModel) Classify(form) string
Classify(ft, form) == UNION {ClassifyFrom(proba) : proba \in ClassifyProba(ft, form)}

\* the shared crf model: two labels, the attribute 1, six weights
ConcCrfModels ==
    {m \in InfModelsOf(2, AlphabetAdd(NewAlphabet, 1).alpha) :
        /\ m.Weights[0] = 1
        /\ \A i \in 1..5 : m.Weights[i] = -1}

\* the shared form-type model after training and InitRuntime: a count and a
\* tf-idf pipeline, two classes
ConcFtModel ==
    LET cv == CountFit(NewCountVectorizer(<<1, 1>>, TRUE, "word", 1), << <<"a">> >>)
        tf == TfidfFitted(NewTfidfVectorizer(<<1, 1>>, 1, TRUE, "word", {}), << <<"B">> >>)
    IN [Classes   |-> (0 :> "login" @@ 1 :> "search"),
        Coef      |-> (0 :> (0 :> 1 @@ 1 :> 0) @@ 1 :> (0 :> 0 @@ 1 :> 1)),
        Intercept |-> (0 :> 0 @@ 1 :> 0),
        countVecs |-> (0 :> cv),
        tfidfVecs |-> (1 :> tf),
        vecTypes  |-> (0 :> "count" @@ 1 :> "tfidf"),
        vecDims   |-> (0 :> CountVocabSize(cv) @@ 1 :> CountVocabSize(tf.CountVec))]

\* the arguments of the calls
ConcSeqs ==
    {(0 :> (1 :> 1)),
     (0 :> (1 :> 1 @@ 2 :> 2) @@ 1 :> (2 :> 1))}

ConcForms ==
    {(0 :> << >> @@ 1 :> << >>),
     (0 :> <<"a">> @@ 1 :> <<"a">>)}

ConcCalls ==
    {[op |-> op, input |-> x] : op \in {"Predict", "PredictMarginals"}, x \in ConcSeqs}
    \cup {[op |-> op, input |-> x] : op \in {"ClassifyProba", "Classify"}, x \in ConcForms}

\* the locals of a call that has not started
NewCall(call) ==
    [op |-> call.op, input |-> call.input, pc |-> "start",
     stateScores |-> Returned(<< >>), transScores |-> << >>, mid |-> << >>,
     vectors |-> << >>, res |-> << >>]

\* a call that returned: its locals are gone, its result stays
Finish(pr, result) ==
    [NewCall(pr) EXCEPT !.pc = "done", !.res = result]

\* a call between its first step and its return
ConcMidCall(pr) ==
    \/ pr.pc \in {"trans", "decode", "labels", "argmax"}
    \/ pr.pc = "start" /\ Len0(pr.vectors) > 0

\* history: call p, itself under way, takes a step while another call is
\* between its first step and its return
Overlap(p) ==
    cnOverlap' = (cnOverlap \/ (/\ ConcMidCall(cnProc[p])
                                /\ \E q \in Procs \ {p} : ConcMidCall(cnProc[q])))

IsCrfCall(pr) == pr.op \in {"Predict", "PredictMarginals"}

ConcInit ==
    /\ cnCrf \in ConcCrfModels
    /\ cnFt = ConcFtModel
    /\ \E calls \in [Procs -> ConcCalls] : cnProc = [p \in Procs |-> NewCall(calls[p])]
    /\ cnOverlap = FALSE

ConcIdle ==
    /\ cnCrf = [Labels |-> NewAlphabet, Attributes |-> NewAlphabet,
                Weights |-> << >>, NumLabels |-> 0]
    /\ cnFt = << >>
    /\ cnProc = << >>
    /\ cnOverlap = FALSE

cnOthers == <<vitVars, alphaVars, svVars, trVars, tvVars, infVars, cvVars, dvVars, ccVars, opVars, evVars, ftVars, fbVars, pgVars, owVars, crVars, lmVars>>

\* stateScores := m.ComputeStateScores(features)
ConcStateScores(p) ==
    /\ IsCrfCall(cnProc[p])
    /\ cnProc[p].pc = "start"
    /\ LET r == ComputeStateScores(cnCrf, cnProc[p].input)
       IN cnProc' = [cnProc EXCEPT ![p] =
             IF r.panic THEN Finish(@, Panicked)
                        ELSE [@ EXCEPT !.stateScores = r, !.pc = "trans"]]
    /\ cnCrf' = CrfAfterStateScores(cnCrf, cnProc[p].input)
    /\ UNCHANGED cnFt
    /\ Overlap(p)
    /\ UNCHANGED cnOthers

\* transScores := m.ComputeTransScores()
ConcTransScores(p) ==
    /\ cnProc[p].pc = "trans"
    /\ cnProc' = [cnProc EXCEPT ![p] =
          [@ EXCEPT !.transScores = ComputeTransScores(cnCrf),
                               !.pc = "decode"]]
    /\ UNCHANGED <<cnCrf, cnFt>>
    /\ Overlap(p)
    /\ UNCHANGED cnOthers

\* path, _ := Viterbi(stateScores, transScores), or
\* fb := ForwardBackward(stateScores, transScores): no read of the model
ConcDecode(p) ==
    /\ cnProc[p].pc = "decode"
    /\ LET pr == cnProc[p]
           T == Len0(pr.stateScores.val)
           L == IF T = 0 THEN 0 ELSE Len0(pr.stateScores.val[0])
       IN cnProc' = [cnProc EXCEPT ![p] =
             [@ EXCEPT !.mid =
                            IF pr.op = "Predict"
                            THEN Viterbi(pr.stateScores.val, pr.transScores, T, L).path
                            ELSE ForwardBackward(pr.stateScores.val, pr.transScores),
                                  !.pc = "labels"]]
    /\ UNCHANGED <<cnCrf, cnFt>>
    /\ Overlap(p)
    /\ UNCHANGED cnOthers

\* the last loop of Predict and of PredictMarginals: reads m.Labels.ToStr and
\* m.NumLabels, then returns
ConcLabels(p) ==
    /\ cnProc[p].pc = "labels"
    /\ LET pr == cnProc[p]
       IN cnProc' = [cnProc EXCEPT ![p] =
             Finish(@, Returned(IF pr.op = "Predict"
                                           THEN PathLabels(cnCrf, pr.mid)
                                           ELSE MarginalMaps(cnCrf, pr.input, pr.mid)))]
    /\ UNCHANGED <<cnCrf, cnFt>>
    /\ Overlap(p)
    /\ UNCHANGED cnOthers

\* one turn of the loop of extractFeatures: vectors[i] = the Transform of
\* pipeline i on the string its extractor returns
ConcExtract(p) ==
    /\ ~IsCrfCall(cnProc[p])
    /\ cnProc[p].pc = "start"
    /\ Len0(cnProc[p].vectors) < Len0(cnFt.vecTypes)
    /\ \E v \in ExtractOne(cnFt, Len0(cnProc[p].vectors), cnProc[p].input) :
          cnProc' = [cnProc EXCEPT ![p] =
             [@ EXCEPT !.vectors = Append0(@, v)]]
    /\ UNCHANGED <<cnCrf, cnFt>>
    /\ Overlap(p)
    /\ UNCHANGED cnOthers

\* ConcatSparse(vectors), the logits, softmax and the result map; ClassifyProba
\* returns it, Classify goes on to its loop
ConcProba(p) ==
    /\ ~IsCrfCall(cnProc[p])
    /\ cnProc[p].pc = "start"
    /\ Len0(cnProc[p].vectors) = Len0(cnFt.vecTypes)
    /\ LET proba == ProbaOf(cnFt, ConcatSparse(cnProc[p].vectors))
       IN cnProc' = [cnProc EXCEPT ![p] =
             IF @.op = "ClassifyProba" THEN Finish(@, proba)
                        ELSE [@ EXCEPT !.mid = proba, !.vectors = << >>,
                                       !.pc = "argmax"]]
    /\ UNCHANGED <<cnCrf, cnFt>>
    /\ Overlap(p)
    /\ UNCHANGED cnOthers

\* the loop of Classify over proba, and its return
ConcClassify(p) ==
    /\ cnProc[p].pc = "argmax"
    /\ \E cls \in ClassifyFrom(cnProc[p].mid) :
          cnProc' = [cnProc EXCEPT ![p] = Finish(@, cls)]
    /\ UNCHANGED <<cnCrf, cnFt>>
    /\ Overlap(p)
    /\ UNCHANGED cnOthers

ConcNext ==
    \E p \in Procs :
        \/ ConcStateScores(p)
        \/ ConcTransScores(p)
        \/ ConcDecode(p)
        \/ ConcLabels(p)
        \/ ConcExtract(p)
        \/ ConcProba(p)
        \/ ConcClassify(p)

-----------------------------------------------------------------------------
(* ConcatSparse on three vectors, flat and nested.  The vectors drawn have *)
(* distinct indices below their Dim, in any order.                         *)
MaxConcatNnz == 3      \* entries of the three vectors together

\* the vectors of a dimension whose n entries have distinct indices below it
VectorsOf(dim, n) ==
    {[Indices |-> idx, Values |-> val, Dim |-> dim] :
        idx \in {f \in [0..(n - 1) -> 0..(dim - 1)] : NoDup0(f)},
        val \in [0..(n - 1) -> SvVals]}

ConcatVectors == UNION {VectorsOf(dim, n) : dim \in 0..MaxDim, n \in 0..MaxConcatNnz}

ConcatInputs ==
    {in \in [0..2 -> ConcatVectors] :
        Len0(in[0].Indices) + Len0(in[1].Indices) + Len0(in[2].Indices) <= MaxConcatNnz}

ConcatInit ==
    /\ ccIn \in ConcatInputs
    /\ ccPc = "start"
    /\ ccFlat = NewSparseVector(0)
    /\ ccInner = NewSparseVector(0)
    /\ ccNested = NewSparseVector(0)

ConcatIdle ==
    /\ ccIn = << >>
    /\ ccPc = "idle"
    /\ ccFlat = NewSparseVector(0)
    /\ ccInner = NewSparseVector(0)
    /\ ccNested = NewSparseVector(0)

ccOthers == <<vitVars, alphaVars, svVars, trVars, tvVars, infVars, cnVars, cvVars, dvVars, opVars, evVars, ftVars, fbVars, pgVars, owVars, crVars, lmVars>>

\* ConcatSparse([]SparseVector{a, b, c})
ConcatFlat ==
    /\ ccPc = "start"
    /\ ccFlat' = ConcatSparse(ccIn)
    /\ ccPc' = "flat"
    /\ UNCHANGED <<ccIn, ccInner, ccNested>>
    /\ UNCHANGED ccOthers

\* ConcatSparse([]SparseVector{a, b})
ConcatInner ==
    /\ ccPc = "flat"
    /\ ccInner' = ConcatSparse([i \in 0..1 |-> ccIn[i]])
    /\ ccPc' = "inner"
    /\ UNCHANGED <<ccIn, ccFlat, ccNested>>
    /\ UNCHANGED ccOthers

\* ConcatSparse([]SparseVector{ab, c})
ConcatOuter ==
    /\ ccPc = "inner"
    /\ ccNested' = ConcatSparse([i \in 0..1 |-> IF i = 0 THEN ccInner ELSE ccIn[2]])
    /\ ccPc' = "nested"
    /\ UNCHANGED <<ccIn, ccFlat, ccInner>>
    /\ UNCHANGED ccOthers

ConcatNext == ConcatFlat \/ ConcatInner \/ ConcatOuter

-----------------------------------------------------------------------------
(* The optimisation loops of crf.Train and TrainFormType with their line   *)
(* searches, one objective evaluation per step.  The objective is not      *)
(* computed: the sign of dot(dir, pg), the outcome of each sufficient-     *)
(* decrease test and of each convergence test are drawn, so every sequence *)
(* of objective values is covered.  A step is 0.5^k for the k halvings     *)
(* made, or zero.                                                          *)
LineSearchTrials == 20

OptKinds == {"crf", "logreg"}
OptCaps == -1..MaxIters    \* config.MaxIterations, config.MaxIter
DirDerivs == {"neg", "nonneg", "nan"}

NoStep == [kind |-> "none", exp |-> 0]
ZeroStep == [kind |-> "zero", exp |-> 0]
Halved(k) == [kind |-> "pow", exp |-> k]

\* a line search with one more trial
TrialsLeftOneMore(trial) == trial <= LineSearchTrials

\* for trial := 0; trial < 20; trial++
TrialsLeft(trial) == trial < LineSearchTrials

\* for iter := range config.MaxIterations / range config.MaxIter
OptLoopHead(iter, cap) == IF iter < cap THEN "objective" ELSE "return"

\* fNew <= fVal+c*step*dirDeriv and newLoss < currentLoss: what the test
\* can say; a comparison with NaN is false
TestOutcomes(kind, dirDeriv) ==
    IF kind = "crf" /\ dirDeriv = "nan" THEN {FALSE} ELSE BOOLEAN

OptInit ==
    /\ opKind \in OptKinds
    /\ opCap \in OptCaps
    /\ opPc = "call"
    /\ opIter = 0
    /\ opRuns = 0
    /\ opDirDeriv = "none"
    /\ opTrial = 0
    /\ opExp = 0
    /\ opEvals = 0
    /\ opTried = {}
    /\ opRet = NoStep
    /\ opPassed = FALSE
    /\ opAdopted = {}
    /\ opStop = "none"

OptIdle ==
    /\ opKind = "idle"
    /\ opCap = 0
    /\ opPc = "idle"
    /\ opIter = 0
    /\ opRuns = 0
    /\ opDirDeriv = "none"
    /\ opTrial = 0
    /\ opExp = 0
    /\ opEvals = 0
    /\ opTried = {}
    /\ opRet = NoStep
    /\ opPassed = FALSE
    /\ opAdopted = {}
    /\ opStop = "none"

opOthers == <<vitVars, alphaVars, svVars, trVars, tvVars, infVars, cnVars, cvVars, dvVars, ccVars, evVars, ftVars, fbVars, pgVars, owVars, crVars, lmVars>>

\* the loop head: the body is entered or the loop is left at the cap
OptEnter(pc) ==
    /\ opPc' = pc
    /\ opRuns' = IF pc = "objective" THEN opRuns + 1 ELSE opRuns
    /\ opStop' = IF pc = "return" THEN "maxiter" ELSE opStop

\* the code before the loop
OptPrepare ==
    /\ opPc = "call"
    /\ OptEnter(OptLoopHead(opIter, opCap))
    /\ UNCHANGED <<opKind, opCap, opIter, opDirDeriv, opTrial, opExp, opEvals, opTried,
                   opRet, opPassed, opAdopted>>
    /\ UNCHANGED opOthers

\* objective, gradient and direction; the call of the line search up to
\* its loop: owlqnLineSearch returns 0 when dirDeriv >= 0
OptObjective ==
    /\ opPc = "objective"
    /\ \E d \in DirDerivs :
          /\ opDirDeriv' = IF opKind = "crf" THEN d ELSE "none"
          /\ IF opKind = "crf" /\ d = "nonneg"
             THEN opRet' = ZeroStep /\ opPc' = "step"
             ELSE opRet' = NoStep /\ opPc' = "trial"
    /\ opTrial' = 0
    /\ opExp' = 0
    /\ opEvals' = 0
    /\ opTried' = {}
    /\ opPassed' = FALSE
    /\ UNCHANGED <<opKind, opCap, opIter, opRuns, opAdopted, opStop>>
    /\ UNCHANGED opOthers

\* one pass of the loop of the line search: the objective is evaluated at
\* the step and the step is returned or halved; after the last pass the
\* halved step is returned
OptTrial ==
    /\ opPc = "trial"
    /\ IF TrialsLeft(opTrial)
       THEN /\ opEvals' = opEvals + 1
            /\ opTried' = opTried \cup {opExp}
            /\ \E ok \in TestOutcomes(opKind, opDirDeriv) :
                  IF ok
                  THEN /\ opRet' = Halved(opExp)
                       /\ opPassed' = TRUE
                       /\ opPc' = "step"
                       /\ UNCHANGED <<opTrial, opExp>>
                  ELSE /\ opExp' = opExp + 1
                       /\ opTrial' = opTrial + 1
                       /\ UNCHANGED <<opRet, opPassed, opPc>>
       ELSE /\ opRet' = Halved(opExp)
            /\ opPassed' = FALSE
            /\ opPc' = "step"
            /\ UNCHANGED <<opTrial, opExp, opEvals, opTried>>
    /\ UNCHANGED <<opKind, opCap, opIter, opRuns, opDirDeriv, opAdopted, opStop>>
    /\ UNCHANGED opOthers

\* a trainer that does not test the step
OptStepNoBreak ==
    /\ opPc = "step"
    /\ opStop' = opStop /\ opPc' = "update"
    /\ UNCHANGED <<opKind, opCap, opIter, opRuns, opDirDeriv, opTrial, opExp, opEvals,
                   opTried, opRet, opPassed, opAdopted>>
    /\ UNCHANGED opOthers

\* crf.Train: if step == 0 { break }; TrainFormType has no such test
OptStep ==
    /\ opPc = "step"
    /\ IF opKind = "crf" /\ opRet = ZeroStep
       THEN opStop' = "linesearch" /\ opPc' = "return"
       ELSE opStop' = opStop /\ opPc' = "update"
    /\ UNCHANGED <<opKind, opCap, opIter, opRuns, opDirDeriv, opTrial, opExp, opEvals,
                   opTried, opRet, opPassed, opAdopted>>
    /\ UNCHANGED opOthers

\* w[i] += step * dir[i], the new gradient and lbfgs.update
OptUpdate ==
    /\ opPc = "update"
    /\ opAdopted' = opAdopted \cup
           {[step |-> opRet, tried |-> opRet.exp \in opTried, passed |-> opPassed]}
    /\ opPc' = "converge"
    /\ UNCHANGED <<opKind, opCap, opIter, opRuns, opDirDeriv, opTrial, opExp, opEvals,
                   opTried, opRet, opPassed, opStop>>
    /\ UNCHANGED opOthers

\* if maxGrad < epsilon { break }, else the next iteration
OptConverge ==
    /\ opPc = "converge"
    /\ \E converged \in BOOLEAN :
          IF converged
          THEN opStop' = "converged" /\ opPc' = "return" /\ UNCHANGED <<opIter, opRuns>>
          ELSE opIter' = opIter + 1 /\ OptEnter(OptLoopHead(opIter + 1, opCap))
    /\ UNCHANGED <<opKind, opCap, opDirDeriv, opTrial, opExp, opEvals, opTried, opRet,
                   opPassed, opAdopted>>
    /\ UNCHANGED opOthers

\* the code after the loop
OptReturn ==
    /\ opPc = "return"
    /\ opPc' = "returned"
    /\ UNCHANGED <<opKind, opCap, opIter, opRuns, opDirDeriv, opTrial, opExp, opEvals,
                   opTried, opRet, opPassed, opAdopted, opStop>>
    /\ UNCHANGED opOthers

OptNext ==
    \/ OptPrepare \/ OptObjective \/ OptTrial \/ OptStep \/ OptUpdate \/ OptConverge
    \/ OptReturn

-----------------------------------------------------------------------------
(* Evaluate: the cross-validation of the form-type model.  An annotation   *)
(* is its domain; groups and folds are slices, ranging over a Go map       *)
(* visits the groups in any order.                                         *)
MaxExamples == 4       \* form-annotated annotations
MaxFolds == 3          \* nFolds

EvalDomains == {"x", "y", "z"}

\* func domainGroups(annotations): a domain gets the number of distinct
\* domains met before its first annotation
DomainGroups(domains) ==
    [i \in DOMAIN domains |->
        LET first == CHOOSE j \in DOMAIN domains :
                         /\ domains[j] = domains[i]
                         /\ \A k \in DOMAIN domains : domains[k] = domains[i] => j <= k
        IN Cardinality({domains[k] : k \in {k \in DOMAIN domains : k < first}})]

\* the slices a range over the keys of a map can build
AnyOrder(set) ==
    {f \in [0..(Cardinality(set) - 1) -> set] : NoDup0(f)}

\* folds[fold] = append(folds[fold], i) for the examples in order
FoldIndices(groups, groupToFold, fold) ==
    LET members == {i \in DOMAIN groups : groupToFold[groups[i]] = fold}
    IN [k \in 0..(Cardinality(members) - 1) |->
           CHOOSE i \in members : Cardinality({j \in members : j < i}) = k]

\* a groupKFold that deals the examples, not the groups, to the folds
GroupKFoldByIndex(groups, nFolds) ==
    LET n == IF nFolds > Len0(groups) THEN Len0(groups) ELSE nFolds
    IN {[fold \in 0..(n - 1) |->
           FoldIndices([i \in DOMAIN groups |-> i], [i \in DOMAIN groups |-> i % n], fold)]}

\* func groupKFold(groups []int, nFolds int) [][]int
\* (the set of results it can return)
GroupKFold(groups, nFolds) ==
    LET uniqueGroups == Range0(groups)
        n == IF nFolds > Cardinality(uniqueGroups) THEN Cardinality(uniqueGroups)
             ELSE nFolds
    IN {[fold \in 0..(n - 1) |->
           FoldIndices(groups,
                       [g \in uniqueGroups |->
                           (CHOOSE i \in DOMAIN sortedGroups : sortedGroups[i] = g) % n],
                       fold)] : sortedGroups \in AnyOrder(uniqueGroups)}

\* func makeTestSet(n int, testIdx []int) []bool
MakeTestSet(n, testIdx) == [i \in 0..(n - 1) |-> i \in Range0(testIdx)]

\* func filterByIndex(forms, labels, testSet, isTest): the indices kept
FilterByIndex(testSet, isTest) == {i \in DOMAIN testSet : testSet[i] = isTest}

EvalInputs == UNION {[0..(n - 1) -> EvalDomains] : n \in 0..MaxExamples}

EvalInit ==
    /\ evDomains \in EvalInputs
    /\ evNFolds \in 1..MaxFolds
    /\ evPc = "start"
    /\ evGroups = << >>
    /\ evFolds = << >>
    /\ evFold = 0
    /\ evTrain = {}
    /\ evTested = [i \in DOMAIN evDomains |-> 0]
    /\ evSplits = {}

EvalIdle ==
    /\ evDomains = << >>
    /\ evNFolds = 1
    /\ evPc = "idle"
    /\ evGroups = << >>
    /\ evFolds = << >>
    /\ evFold = 0
    /\ evTrain = {}
    /\ evTested = << >>
    /\ evSplits = {}

evOthers == <<vitVars, alphaVars, svVars, trVars, tvVars, infVars, cnVars, cvVars, dvVars,
             ccVars, opVars, ftVars, fbVars, pgVars, owVars, crVars, lmVars>>

\* the loop over the folds: the next fold, or the end of the evaluation
EvalLoopHead(fold, folds) == IF fold < Len0(folds) THEN "fold" ELSE "done"

\* if len(formAnnotations) > 0: domainGroups and groupKFold
EvalSplit ==
    /\ evPc = "start"
    /\ IF Len0(evDomains) > 0
       THEN /\ evGroups' = DomainGroups(evDomains)
            /\ evFolds' \in GroupKFold(evGroups', evNFolds)
            /\ evPc' = EvalLoopHead(0, evFolds')
       ELSE /\ evPc' = "done"
            /\ UNCHANGED <<evGroups, evFolds>>
    /\ UNCHANGED <<evDomains, evNFolds, evFold, evTrain, evTested, evSplits>>
    /\ UNCHANGED evOthers

\* makeTestSet, filterByIndex and TrainFormType on the training part;
\* TrainFormType reads xData[0] and panics when no form is handed to it
EvalTrain ==
    /\ evPc = "fold"
    /\ LET testSet == MakeTestSet(Len0(evDomains), evFolds[evFold])
       IN /\ evTrain' = FilterByIndex(testSet, FALSE)
          /\ evSplits' = evSplits \cup {[test  |-> FilterByIndex(testSet, TRUE),
                                         train |-> evTrain']}
          /\ evPc' = IF evTrain' = {} THEN "panic" ELSE "test"
    /\ UNCHANGED <<evDomains, evNFolds, evGroups, evFolds, evFold, evTested>>
    /\ UNCHANGED evOthers

\* for _, idx := range testIdx: Classify and count
EvalTest ==
    /\ evPc = "test"
    /\ evTested' = [i \in DOMAIN evTested |->
                       evTested[i] + Cardinality({k \in DOMAIN evFolds[evFold] :
                                                     evFolds[evFold][k] = i})]
    /\ evFold' = evFold + 1
    /\ evPc' = EvalLoopHead(evFold + 1, evFolds)
    /\ UNCHANGED <<evDomains, evNFolds, evGroups, evFolds, evTrain, evSplits>>
    /\ UNCHANGED evOthers

EvalNext == EvalSplit \/ EvalTrain \/ EvalTest

-----------------------------------------------------------------------------
(* TrainFormType.  A form is what the extractors of the pipelines return   *)
(* of it: a dict for the dict pipeline, a string for each text pipeline.   *)
(* The optimisation is not computed: params holds, per entry, the number   *)
(* of iterations run.                                                      *)
MaxForms == 2          \* forms handed to TrainFormType

\* the VecType of the pipelines: one of each kind
FtVecTypes == (0 :> "dict" @@ 1 :> "count" @@ 2 :> "tfidf")

FtDicts == {(<<"a">> :> StringValue(<<"B">>)), (<<"a">> :> BoolValue(TRUE))}
FtForms ==
    {(0 :> d @@ 1 :> s @@ 2 :> u) :
        d \in FtDicts, s \in {<< >>, <<"a">>}, u \in {<<"a">>, <<"B">>}}
FtClasses == {"login", "search"}
FtMaxIters == {0, 1}

\* the forms of a pipeline, as the slice FitTransform is handed
FtColumn(forms, i) == [j \in DOMAIN forms |-> forms[j][i]]

\* the loop over the pipelines: a vectorizer of the pipeline's kind is
\* fitted on the forms; vecDims[i] is its VocabSize()
FtFitted(forms) ==
    LET dictVec == DictFit(NewDictVectorizer, FtColumn(forms, 0))
        countVec == CountFit(NewCountVectorizer(<<1, 1>>, TRUE, "word", 1), FtColumn(forms, 1))
        tfidfVec == TfidfFitted(NewTfidfVectorizer(<<1, 1>>, 2, TRUE, "word", {}),
                          FtColumn(forms, 2))
    IN [Classes   |-> << >>,
        Coef      |-> << >>,
        Intercept |-> << >>,
        dictVecs  |-> (0 :> dictVec),
        countVecs |-> (1 :> countVec),
        tfidfVecs |-> (2 :> tfidfVec),
        vecTypes  |-> FtVecTypes,
        vecDims   |-> (0 :> DictVocabSize(dictVec) @@ 1 :> CountVocabSize(countVec)
                       @@ 2 :> CountVocabSize(tfidfVec.CountVec))]

\* xData: for each of the first n forms, the concatenation of the vectors
\* FitTransform returned for it (the sets of slices that can come out)
RECURSIVE FtXData(_, _, _)
FtXData(m, forms, n) ==
    IF n = 0 THEN {<< >>}
    ELSE {Append(xs, ConcatSparse(vs)) :
             xs \in FtXData(m, forms, n - 1),
             vs \in ExtractedUpTo(m, forms[n], Len0(m.vecTypes))}

\* classes: the labels in the order of their first occurrence
RECURSIVE FtClassesOf(_, _, _)
FtClassesOf(labels, j, classes) ==
    IF j > Len(labels) THEN classes
    ELSE FtClassesOf(labels, j + 1,
                     IF labels[j] \in Range0(classes) THEN classes
                     ELSE Append0(classes, labels[j]))

\* a totalDim read off the entries of the first vector
FtTotalDimNnz(xData) == Len0(xData[1].Indices)

\* totalDim := xData[0].Dim
FtTotalDim(xData) == xData[1].Dim

\* model.Coef[c] and model.Intercept[c] cut out of params
FtCoef(params, numClasses, totalDim) ==
    [c \in 0..(numClasses - 1) |->
        [i \in 0..(totalDim - 1) |-> params[c * (totalDim + 1) + i]]]
FtIntercept(params, numClasses, totalDim) ==
    [c \in 0..(numClasses - 1) |-> params[c * (totalDim + 1) + totalDim]]

FormTypeInit ==
    /\ \E n \in 0..MaxForms :
          /\ ftForms \in [1..n -> FtForms]
          /\ ftLabels \in [1..n -> FtClasses]
    /\ ftMaxIter \in FtMaxIters
    /\ ftPc = "call"
    /\ ftModel = << >>
    /\ ftX = << >>
    /\ ftParams = << >>
    /\ ftProbe = << >>
    /\ ftOut = NewSparseVector(0)

FormTypeIdle ==
    /\ ftForms = << >>
    /\ ftLabels = << >>
    /\ ftMaxIter = 0
    /\ ftPc = "idle"
    /\ ftModel = << >>
    /\ ftX = << >>
    /\ ftParams = << >>
    /\ ftProbe = << >>
    /\ ftOut = NewSparseVector(0)

ftOthers == <<vitVars, alphaVars, svVars, trVars, tvVars, infVars, cnVars, cvVars, dvVars,
             ccVars, opVars, evVars, fbVars, pgVars, owVars, crVars, lmVars>>

\* the vectorizers are fitted and xData[j] is the concatenation of the
\* vectors of form j
FtVectorize ==
    /\ ftPc = "call"
    /\ ftModel' = FtFitted(ftForms)
    /\ ftX' \in FtXData(ftModel', ftForms, Len(ftForms))
    /\ ftPc' = "vectorized"
    /\ UNCHANGED <<ftForms, ftLabels, ftMaxIter, ftParams, ftProbe, ftOut>>
    /\ UNCHANGED ftOthers

\* classes, totalDim := xData[0].Dim (a panic without forms), params
\* and the optimisation loop
FtOptimise ==
    /\ ftPc = "vectorized"
    /\ IF Len(ftForms) = 0
       THEN /\ ftPc' = "panic"
            /\ UNCHANGED <<ftModel, ftParams>>
       ELSE LET classes == FtClassesOf(ftLabels, 1, << >>)
                numParams == Len0(classes) * (FtTotalDim(ftX) + 1)
            IN /\ ftModel' = [ftModel EXCEPT !.Classes = classes]
               /\ \E iters \in 0..ftMaxIter :
                     ftParams' = [i \in 0..(numParams - 1) |-> iters]
               /\ ftPc' = "optimised"
    /\ UNCHANGED <<ftForms, ftLabels, ftMaxIter, ftX, ftProbe, ftOut>>
    /\ UNCHANGED ftOthers

\* Coef and Intercept, return model
FtReturn ==
    /\ ftPc = "optimised"
    /\ ftModel' = [ftModel EXCEPT
                      !.Coef = FtCoef(ftParams, Len0(ftModel.Classes), FtTotalDim(ftX)),
                      !.Intercept = FtIntercept(ftParams, Len0(ftModel.Classes),
                                                FtTotalDim(ftX))]
    /\ ftPc' = "returned"
    /\ UNCHANGED <<ftForms, ftLabels, ftMaxIter, ftX, ftParams, ftProbe, ftOut>>
    /\ UNCHANGED ftOthers

\* m.extractFeatures(form) on the model returned
FtExtractFeatures ==
    /\ ftPc = "returned"
    /\ \E form \in FtForms :
          /\ ftProbe' = form
          /\ ftOut' \in {ConcatSparse(vs) : vs \in ExtractedUpTo(ftModel, form, Len0(ftModel.vecTypes))}
    /\ ftPc' = "extracted"
    /\ UNCHANGED <<ftForms, ftLabels, ftMaxIter, ftModel, ftX, ftParams>>
    /\ UNCHANGED ftOthers

FormTypeNext == FtVectorize \/ FtOptimise \/ FtReturn \/ FtExtractFeatures

-----------------------------------------------------------------------------
(* ForwardBackward in float64 arithmetic without rounding: a value is a    *)
(* non-negative fraction in lowest terms, +Inf or NaN.  math.Exp gives 0   *)
(* below about -745 and +Inf above about 709; the scores are drawn from    *)
(* both ranges and from between them.                                      *)
MaxFbT == 2            \* positions of a sequence

FbLabelCounts == 0..2
FbStateScores == {"-1000", "0", "ln2", "1000"}
FbTransScores == {"-1000", "0"}

RECURSIVE Gcd(_, _)
Gcd(a, b) == IF b = 0 THEN a ELSE Gcd(b, a % b)

XFrac(n, d) == [k |-> "fin", n |-> n \div Gcd(n, d), d |-> d \div Gcd(n, d)]
XZero == [k |-> "fin", n |-> 0, d |-> 1]
XOne == [k |-> "fin", n |-> 1, d |-> 1]
XInf == [k |-> "inf", n |-> 0, d |-> 1]
XNaN == [k |-> "nan", n |-> 0, d |-> 1]

\* a == 0
XIsZero(a) == a.k = "fin" /\ a.n = 0

\* a + b
XAdd(a, b) ==
    CASE a.k = "nan" \/ b.k = "nan" -> XNaN
      [] a.k = "inf" \/ b.k = "inf" -> XInf
      [] OTHER -> XFrac(a.n * b.d + b.n * a.d, a.d * b.d)

\* a * b: 0 * Inf is NaN
XMul(a, b) ==
    CASE a.k = "nan" \/ b.k = "nan" -> XNaN
      [] a.k = "inf" -> IF XIsZero(b) THEN XNaN ELSE XInf
      [] b.k = "inf" -> IF XIsZero(a) THEN XNaN ELSE XInf
      [] OTHER -> XFrac(a.n * b.n, a.d * b.d)

\* a / b: x / 0 is +Inf for x > 0, 0 / 0 and Inf / Inf are NaN
XDiv(a, b) ==
    CASE a.k = "nan" \/ b.k = "nan" -> XNaN
      [] a.k = "inf" -> IF b.k = "inf" THEN XNaN ELSE XInf
      [] b.k = "inf" -> XZero
      [] XIsZero(b) -> IF XIsZero(a) THEN XNaN ELSE XInf
      [] OTHER -> XFrac(a.n * b.d, a.d * b.n)

\* var s float64; for i := range L { s += row[i] }
RECURSIVE XSumTo(_, _)
XSumTo(row, n) == IF n = 0 THEN XZero ELSE XAdd(XSumTo(row, n - 1), row[n - 1])
XSum(row) == XSumTo(row, Len0(row))

\* math.Exp
Exp(score) ==
    CASE score = "-1000" -> XZero
      [] score = "0"     -> XOne
      [] score = "ln2"   -> XFrac(2, 1)
      [] score = "1000"  -> XInf

\* scale[t]: 1/sum; from position 1 on, 1.0 when the sum is 0
FbScale(t, sum) == IF t >= 1 /\ XIsZero(sum) THEN XOne ELSE XDiv(XOne, sum)

\* the forward pass up to position t: alpha[0..t] and scale[0..t]
RECURSIVE FbForward(_, _, _, _)
FbForward(expState, expTrans, L, t) ==
    LET prev == FbForward(expState, expTrans, L, t - 1)
        raw == [y \in 0..(L - 1) |->
                   IF t = 0 THEN expState[0][y]
                   ELSE XMul(XSum([yp \in 0..(L - 1) |->
                                      XMul(prev.alpha[t - 1][yp], expTrans[yp][y])]),
                             expState[t][y])]
        scale == FbScale(t, XSum(raw))
        row == [y \in 0..(L - 1) |-> XMul(raw[y], scale)]
    IN IF t = 0 THEN [alpha |-> (0 :> row), scale |-> (0 :> scale)]
       ELSE [alpha |-> Append0(prev.alpha, row), scale |-> Append0(prev.scale, scale)]

\* the backward pass: beta[t], from the last position down
RECURSIVE FbBeta(_, _, _, _, _, _)
FbBeta(expState, expTrans, scale, L, T, t) ==
    IF t = T - 1 THEN [y \in 0..(L - 1) |-> scale[T - 1]]
    ELSE LET next == FbBeta(expState, expTrans, scale, L, T, t + 1)
         IN [y \in 0..(L - 1) |->
                XMul(XSum([yn \in 0..(L - 1) |->
                              XMul(XMul(expTrans[y][yn], expState[t + 1][yn]), next[yn])]),
                     scale[t])]

\* func ForwardBackward(stateScores, transScores [][]float64): the
\* marginals, alpha, beta and the scale factors (T >= 1)
ScaledForwardBackward(ss, ts) ==
    LET T == Len0(ss)
        L == Len0(ss[0])
        expState == [t \in 0..(T - 1) |-> [y \in 0..(L - 1) |-> Exp(ss[t][y])]]
        expTrans == [i \in 0..(L - 1) |-> [j \in 0..(L - 1) |-> Exp(ts[i][j])]]
        fwd == FbForward(expState, expTrans, L, T - 1)
        beta == [t \in 0..(T - 1) |-> FbBeta(expState, expTrans, fwd.scale, L, T, t)]
    IN [Marginals |-> [t \in 0..(T - 1) |->
                         [y \in 0..(L - 1) |->
                             XDiv(XMul(fwd.alpha[t][y], beta[t][y]), fwd.scale[t])]],
        Alpha |-> fwd.alpha,
        Beta  |-> beta,
        Scale |-> fwd.scale]

\* ForwardBackwardResult{}
FbEmpty == [Marginals |-> << >>, Alpha |-> << >>, Beta |-> << >>, Scale |-> << >>]

FbInit ==
    /\ \E T \in 0..MaxFbT, L \in FbLabelCounts :
          /\ fbState \in [0..(T - 1) -> [0..(L - 1) -> FbStateScores]]
          /\ fbTrans \in [0..(L - 1) -> [0..(L - 1) -> FbTransScores]]
    /\ fbPc = "call"
    /\ fbRes = FbEmpty

FbIdle ==
    /\ fbState = << >>
    /\ fbTrans = << >>
    /\ fbPc = "idle"
    /\ fbRes = FbEmpty

fbOthers == <<vitVars, alphaVars, svVars, trVars, tvVars, infVars, cnVars, cvVars, dvVars,
             ccVars, opVars, evVars, ftVars, pgVars, owVars, crVars, lmVars>>

\* fb := ForwardBackward(stateScores, transScores)
FbRun ==
    /\ fbPc = "call"
    /\ fbRes' = IF Len0(fbState) = 0 THEN FbEmpty
                ELSE ScaledForwardBackward(fbState, fbTrans)
    /\ fbPc' = "done"
    /\ UNCHANGED <<fbState, fbTrans>>
    /\ UNCHANGED fbOthers

FbNext == FbRun

-----------------------------------------------------------------------------
(* The pseudo-gradient of crf.Train.  Weights, gradients and C1 are small  *)
(* integers; the two copies of the rule in the loop body are two operators.*)
MaxPgDim == 2      \* numWeights
MaxPgGrad == 2     \* largest |grad[i]|
MaxPgC1 == 1       \* largest config.C1

PgWeights == {-1, 0, 1}
PgGrads == (0 - MaxPgGrad)..MaxPgGrad
PgC1s == -1..MaxPgC1    \* config.C1 is any float64 the caller sets
PgVectors(vals, n) == [0..(n - 1) -> vals]

\* a rule that treats a zero weight like a positive one
PseudoGradientNoZeroCase(w, grad, c1) ==
    [i \in DOMAIN w |-> IF w[i] < 0 THEN grad[i] - c1 ELSE grad[i] + c1]

\* lines 367-386: pg from w and grad
PseudoGradient(w, grad, c1) ==
    [i \in DOMAIN w |->
        CASE w[i] > 0 -> grad[i] + c1
          [] w[i] < 0 -> grad[i] - c1
          [] OTHER    -> CASE grad[i] + c1 < 0 -> grad[i] + c1
                           [] grad[i] + c1 >= 0 /\ grad[i] - c1 > 0 -> grad[i] - c1
                           [] OTHER -> 0]

\* lines 527-545: newPG from the updated w and newGrad
NewPseudoGradient(w, newGrad, c1) ==
    [i \in DOMAIN w |->
        CASE w[i] > 0 -> newGrad[i] + c1
          [] w[i] < 0 -> newGrad[i] - c1
          [] OTHER    -> CASE newGrad[i] + c1 < 0 -> newGrad[i] + c1
                           [] newGrad[i] + c1 >= 0 /\ newGrad[i] - c1 > 0 -> newGrad[i] - c1
                           [] OTHER -> 0]

PgInit ==
    /\ pgC1 \in PgC1s
    /\ \E n \in 0..MaxPgDim :
          /\ pgW \in PgVectors(PgWeights, n)
          /\ pgGrad \in PgVectors(PgGrads, n)
    /\ pgOut = << >>
    /\ pgPc = "call"

PgIdle ==
    /\ pgC1 = 0
    /\ pgW = << >>
    /\ pgGrad = << >>
    /\ pgOut = << >>
    /\ pgPc = "idle"

pgOthers == <<vitVars, alphaVars, svVars, trVars, tvVars, infVars, cnVars, cvVars, dvVars, ccVars, opVars, evVars, ftVars, fbVars, owVars, crVars, lmVars>>

\* the pseudo-gradient the direction is computed from
PgForDirection ==
    /\ pgPc = "call"
    /\ pgOut' = PseudoGradient(pgW, pgGrad, pgC1)
    /\ pgPc' = "pg"
    /\ UNCHANGED <<pgC1, pgW, pgGrad>>
    /\ UNCHANGED pgOthers

\* the pseudo-gradient at the new point, for y and the convergence test
PgAtNewPoint ==
    /\ pgPc = "call"
    /\ pgOut' = NewPseudoGradient(pgW, pgGrad, pgC1)
    /\ pgPc' = "newPG"
    /\ UNCHANGED <<pgC1, pgW, pgGrad>>
    /\ UNCHANGED pgOthers

PgNext == PgForDirection \/ PgAtNewPoint

-----------------------------------------------------------------------------
(* One iteration of the OWL-QN loop of crf.Train on the weight vector:     *)
(* pseudo-gradient, direction, orthant restriction, line search, update    *)
(* and the history entry s.  Weights and directions are integers counting  *)
(* halves, so that the steps 1 and 0.5 stay exact; the gradient, the       *)
(* direction lbfgs.computeDirection returns and the step the line search   *)
(* accepts are drawn.                                                      *)
OwWeights == {-1, 0, 1}
OwGrads == {-2, 0, 2}
OwDirs == {-2, 0, 2}
OwC1s == {0, 1}
OwHalvings == {0, 1}     \* the accepted step is 0.5^k

\* func dot(a, b []float64) float64
dot(a, b) == SumFn([i \in DOMAIN a |-> a[i] * b[i]])

\* step * dir[i] for step = 0.5^k
StepTimes(k, d) == IF k = 0 THEN d ELSE d \div 2

\* a restriction that zeroes the components pointing against pg
RestrictDirectionOpposite(dir, pg) ==
    [i \in DOMAIN dir |-> IF dir[i] * pg[i] < 0 THEN 0 ELSE dir[i]]

\* lines 391-396: if dir[i]*pg[i] > 0 { dir[i] = 0 }
RestrictDirection(dir, pg) ==
    [i \in DOMAIN dir |-> IF dir[i] * pg[i] > 0 THEN 0 ELSE dir[i]]

\* an update that keeps the unprojected point
ProjectOrthantOff(wNew, wOld, c1) == wNew

\* lines 461-467 and 695-702: if c1 > 0, a weight with wNew*wOld < 0 is 0
ProjectOrthant(wNew, wOld, c1) ==
    IF c1 > 0
    THEN [i \in DOMAIN wNew |-> IF wNew[i] * wOld[i] < 0 THEN 0 ELSE wNew[i]]
    ELSE wNew

\* w[i] + step*dir[i]
Stepped(w, k, dir) == [i \in DOMAIN w |-> w[i] + StepTimes(k, dir[i])]

OwNoStep == [zero |-> TRUE, k |-> 0]

OwInit ==
    /\ owC1 \in OwC1s
    /\ \E n \in 0..MaxPgDim : owW \in PgVectors(OwWeights, n)
    /\ owGrad = << >>
    /\ owPg = << >>
    /\ owDir = << >>
    /\ owStep = OwNoStep
    /\ owTrial = << >>
    /\ owPrevW = << >>
    /\ owS = << >>
    /\ owPc = "objective"

OwIdle ==
    /\ owC1 = 0
    /\ owW = << >>
    /\ owGrad = << >>
    /\ owPg = << >>
    /\ owDir = << >>
    /\ owStep = OwNoStep
    /\ owTrial = << >>
    /\ owPrevW = << >>
    /\ owS = << >>
    /\ owPc = "idle"

owOthers == <<vitVars, alphaVars, svVars, trVars, tvVars, infVars, cnVars, cvVars, dvVars, ccVars, opVars, evVars, ftVars, fbVars, pgVars, crVars, lmVars>>

\* lines 269-386: the gradient and the pseudo-gradient
OwObjective ==
    /\ owPc = "objective"
    /\ \E grad \in PgVectors(OwGrads, Len0(owW)) :
          /\ owGrad' = grad
          /\ owPg' = PseudoGradient(owW, grad, owC1)
    /\ owPc' = "direction"
    /\ UNCHANGED <<owC1, owW, owDir, owStep, owTrial, owPrevW, owS>>
    /\ UNCHANGED owOthers

\* line 389: dir := lbfgs.computeDirection(pg)
OwDirection ==
    /\ owPc = "direction"
    /\ owDir' \in PgVectors(OwDirs, Len0(owW))
    /\ owPc' = "restrict"
    /\ UNCHANGED <<owC1, owW, owGrad, owPg, owStep, owTrial, owPrevW, owS>>
    /\ UNCHANGED owOthers

\* lines 391-396: the direction is restricted in place
OwRestrict ==
    /\ owPc = "restrict"
    /\ owDir' = RestrictDirection(owDir, owPg)
    /\ owPc' = "linesearch"
    /\ UNCHANGED <<owC1, owW, owGrad, owPg, owStep, owTrial, owPrevW, owS>>
    /\ UNCHANGED owOthers

\* lines 399-451 and 681-711: step 0 for dot(dir, pg) >= 0 and the loop is
\* left; else a step with its projected trial point
OwLineSearch ==
    /\ owPc = "linesearch"
    /\ IF dot(owDir, owPg) >= 0
       THEN /\ owStep' = [zero |-> TRUE, k |-> 0]
            /\ owPc' = "stopped"
            /\ UNCHANGED owTrial
       ELSE \E k \in OwHalvings :
               /\ owStep' = [zero |-> FALSE, k |-> k]
               /\ owTrial' = ProjectOrthant(Stepped(owW, k, owDir), owW, owC1)
               /\ owPc' = "update"
    /\ UNCHANGED <<owC1, owW, owGrad, owPg, owDir, owPrevW, owS>>
    /\ UNCHANGED owOthers

\* lines 453-473: prevW, the step, the projection and s
OwUpdate ==
    /\ owPc = "update"
    /\ owPrevW' = owW
    /\ owW' = ProjectOrthant(Stepped(owW, owStep.k, owDir), owW, owC1)
    /\ owS' = [i \in DOMAIN owW |-> owW'[i] - owW[i]]
    /\ owPc' = "updated"
    /\ UNCHANGED <<owC1, owGrad, owPg, owDir, owStep, owTrial>>
    /\ UNCHANGED owOthers

OwNext == OwObjective \/ OwDirection \/ OwRestrict \/ OwLineSearch \/ OwUpdate

-----------------------------------------------------------------------------
(* crawlSite: the homepage, then the loop over its links.  A site is the   *)
(* list of same-host links extractLinks finds on each page; what a fetch   *)
(* returns and whether a link is mangled are drawn.                        *)
MaxCrawlLinks == 2     \* most links on one page
MaxCrawlPages == 3     \* largest maxPerSite and maxTotal

CrawlHome == "/"
CrawlPages == {"/a", "/b"}

\* extractLinks: the links of a page in document order, each once
CrawlLinkLists ==
    UNION {AnyOrder(s) : s \in {t \in SUBSET CrawlPages : Cardinality(t) <= MaxCrawlLinks}}
CrawlSites == [CrawlPages \cup {CrawlHome} -> CrawlLinkLists]

\* links = append(links, subLinks...)
AppendAll(links, more) ==
    [i \in 0..(Len0(links) + Len0(more) - 1) |->
        IF i < Len0(links) THEN links[i] ELSE more[i - Len0(links)]]

\* collected >= opts.maxPerSite, opts.maxTotal > 0 && *opts.total >= opts.maxTotal
BudgetSpent(collected, total, maxPerSite, maxTotal) ==
    \/ collected >= maxPerSite
    \/ maxTotal > 0 /\ total >= maxTotal

CrawlInit ==
    /\ crSite \in CrawlSites
    /\ crMaxPerSite \in 0..MaxCrawlPages
    /\ crMaxTotal \in 0..MaxCrawlPages
    /\ crTotal \in 0..1
    /\ crCollected = 0
    /\ crVisited = {}
    /\ crLinks = << >>
    /\ crN = 0
    /\ crI = 0
    /\ crPc = "call"
    /\ crStop = "none"

CrawlIdle ==
    /\ crSite = << >>
    /\ crMaxPerSite = 0
    /\ crMaxTotal = 0
    /\ crTotal = 0
    /\ crCollected = 0
    /\ crVisited = {}
    /\ crLinks = << >>
    /\ crN = 0
    /\ crI = 0
    /\ crPc = "idle"
    /\ crStop = "none"

crOthers == <<vitVars, alphaVars, svVars, trVars, tvVars, infVars, cnVars, cvVars, dvVars, ccVars, opVars, evVars, ftVars, fbVars, pgVars, owVars, lmVars>>

\* lines 147-178: the homepage is fetched and collected, its links are
\* shuffled, and "for _, link := range links" takes the slice it ranges over
CrawlFetchHome ==
    /\ crPc = "call"
    /\ \E ok \in BOOLEAN :
          IF ok
          THEN /\ crVisited' = {CrawlHome}
               /\ crCollected' = 1
               /\ crTotal' = crTotal + 1
               /\ crLinks' \in AnyOrder(Range0(crSite[CrawlHome]))
               /\ crN' = Len0(crSite[CrawlHome])
               /\ crI' = 0
               /\ crPc' = "loop"
               /\ UNCHANGED crStop
          ELSE /\ crPc' = "done"
               /\ crStop' = "error"
               /\ UNCHANGED <<crVisited, crCollected, crTotal, crLinks, crN, crI>>
    /\ UNCHANGED <<crSite, crMaxPerSite, crMaxTotal>>
    /\ UNCHANGED crOthers

\* lines 180-227: one pass of the loop body
CrawlFollowLink ==
    /\ crPc = "loop"
    /\ crI < crN
    /\ IF BudgetSpent(crCollected, crTotal, crMaxPerSite, crMaxTotal)
       THEN /\ crPc' = "done"
            /\ crStop' = "budget"
            /\ UNCHANGED <<crVisited, crCollected, crTotal, crLinks, crI>>
       ELSE IF crLinks[crI] \in crVisited
       THEN /\ crI' = crI + 1
            /\ UNCHANGED <<crVisited, crCollected, crTotal, crLinks, crPc, crStop>>
       ELSE \E fetched \in BOOLEAN, mangle \in {"no", "failed", "collected"} :
               LET link == crLinks[crI]
                   c1 == IF fetched THEN crCollected + 1 ELSE crCollected
                   t1 == IF fetched THEN crTotal + 1 ELSE crTotal
               IN /\ crVisited' = crVisited \cup {link}
                  /\ crLinks' = IF fetched THEN AppendAll(crLinks, crSite[link])
                                ELSE crLinks
                  /\ IF mangle # "no"
                        /\ BudgetSpent(c1, t1, crMaxPerSite, crMaxTotal)
                     THEN /\ crCollected' = c1
                          /\ crTotal' = t1
                          /\ crPc' = "done"
                          /\ crStop' = "budget"
                          /\ UNCHANGED crI
                     ELSE /\ crCollected' = IF mangle = "collected" THEN c1 + 1 ELSE c1
                          /\ crTotal' = IF mangle = "collected" THEN t1 + 1 ELSE t1
                          /\ crI' = crI + 1
                          /\ UNCHANGED <<crPc, crStop>>
    /\ UNCHANGED <<crSite, crMaxPerSite, crMaxTotal, crN>>
    /\ UNCHANGED crOthers

\* line 229: the range is used up, return collected, nil
CrawlReturn ==
    /\ crPc = "loop"
    /\ crI >= crN
    /\ crPc' = "done"
    /\ crStop' = "end"
    /\ UNCHANGED <<crSite, crMaxPerSite, crMaxTotal, crTotal, crCollected, crVisited,
                   crLinks, crN, crI>>
    /\ UNCHANGED crOthers

CrawlNext == CrawlFetchHome \/ CrawlFollowLink \/ CrawlReturn

-----------------------------------------------------------------------------
(* The L-BFGS memory of crf.go:575-670 (logRegLBFGS of formtype.go:376-477 *)
(* has the same statements): m slots used as a ring, k the number of       *)
(* stored updates, size the number of slots in use.  A stored pair is      *)
(* modelled by the number of the update call that stored it and by         *)
(* sy = dot(s, y); rho = 1/sy has the sign of sy.  computeDirection is     *)
(* modelled by the slots its two loops read, in the order they read them.  *)

MaxUpdates == 12
LmSys == {-1, 0, 1}

\* a slot of make([][]float64, m) that was never assigned
NoPair == [id |-> 0, sy |-> 0]

\* Go's % truncates towards zero
GoRem(a, b) == IF a >= 0 THEN a % b ELSE 0 - ((0 - a) % b)

\* newLBFGS(n, m)
newLBFGS == [k |-> 0, size |-> 0, slots |-> [i \in 0..(LbfgsM - 1) |-> NoPair]]

updateSlotBySize(l, id, sy) ==
    IF sy <= 0 THEN l
    ELSE [k |-> l.k + 1,
          size |-> IF l.size < LbfgsM THEN l.size + 1 ELSE l.size,
          slots |-> [l.slots EXCEPT ![GoRem(l.size, LbfgsM)] = [id |-> id, sy |-> sy]]]

\* lbfgs.update(s, y) with sy = dot(s, y), called as the id-th update
update(l, id, sy) ==
    IF sy <= 0 THEN l
    ELSE [k |-> l.k + 1,
          size |-> IF l.size < LbfgsM THEN l.size + 1 ELSE l.size,
          slots |-> [l.slots EXCEPT ![GoRem(l.k, LbfgsM)] = [id |-> id, sy |-> sy]]]

\* "idx := ... % l.m; if idx < 0 { idx += l.m }"
RingIdx(a) == IF GoRem(a, LbfgsM) < 0 THEN GoRem(a, LbfgsM) + LbfgsM ELSE GoRem(a, LbfgsM)

\* the slot the first loop reads for alpha[i]
FirstLoopIdx(l, i) == RingIdx(l.k - 1 - (l.size - 1 - i))

\* the slot the second loop reads for alpha[i]
SecondLoopIdx(l, i) == RingIdx(l.k - l.size + i)

NoReads == [ran |-> FALSE, first |-> << >>, latest |-> << >>, second |-> << >>]

\* computeDirection(pg): the reads of the first loop (i = size-1 down to 0),
\* of the scaling and of the second loop (i = 0 up to size-1); none when
\* size = 0
computeDirection(l) ==
    IF l.size = 0 THEN [NoReads EXCEPT !.ran = TRUE]
    ELSE [ran |-> TRUE,
          first |-> [j \in 1..l.size |->
                        [i |-> l.size - j,
                         slot |-> FirstLoopIdx(l, l.size - j),
                         pair |-> l.slots[FirstLoopIdx(l, l.size - j)]]],
          latest |-> << [slot |-> RingIdx(l.k - 1), pair |-> l.slots[RingIdx(l.k - 1)]] >>,
          second |-> [j \in 1..l.size |->
                        [i |-> j - 1,
                         slot |-> SecondLoopIdx(l, j - 1),
                         pair |-> l.slots[SecondLoopIdx(l, j - 1)]]]]

LmInit ==
    /\ lmL = newLBFGS
    /\ lmCalls = 0
    /\ lmLastSy = 0
    /\ lmAccepted = << >>
    /\ lmReads = NoReads

LmIdle ==
    /\ lmL = newLBFGS
    /\ lmCalls = 0
    /\ lmLastSy = 0
    /\ lmAccepted = << >>
    /\ lmReads = NoReads

lmOthers == <<vitVars, alphaVars, svVars, trVars, tvVars, infVars, cnVars, cvVars, dvVars, ccVars, opVars, evVars, ftVars, fbVars, pgVars, owVars, crVars>>

\* crf.go:551 (formtype.go:245): one more update call
LmUpdate ==
    /\ lmCalls < MaxUpdates
    /\ \E sy \in LmSys :
          /\ lmL' = update(lmL, lmCalls + 1, sy)
          /\ lmLastSy' = sy
          /\ lmAccepted' = IF sy <= 0 THEN lmAccepted ELSE Append(lmAccepted, lmCalls + 1)
    /\ lmCalls' = lmCalls + 1
    /\ lmReads' = NoReads
    /\ UNCHANGED lmOthers

\* crf.go:389 (formtype.go:229): the direction of the next iteration
LmDirection ==
    /\ lmReads' = computeDirection(lmL)
    /\ UNCHANGED <<lmL, lmCalls, lmLastSy, lmAccepted>>
    /\ UNCHANGED lmOthers

LmNext == LmUpdate \/ LmDirection

----------------------------------------------------------------------------
(* Specifications: one component runs, the others stay idle. *)
InitViterbi ==
    VitInit /\ AlphaIdle /\ SvIdle /\ TrainIdle /\ TfidfIdle /\ InferIdle /\ ConcIdle /\ CountIdle /\ DictIdle /\ ConcatIdle /\ OptIdle /\ EvalIdle /\ FormTypeIdle /\ FbIdle /\ PgIdle /\ OwIdle /\ CrawlIdle /\ LmIdle
SpecViterbi == InitViterbi /\ [][VitNext]_vars

InitAlphabet ==
    AlphaInit /\ VitIdle /\ SvIdle /\ TrainIdle /\ TfidfIdle /\ InferIdle /\ ConcIdle /\ CountIdle /\ DictIdle /\ ConcatIdle /\ OptIdle /\ EvalIdle /\ FormTypeIdle /\ FbIdle /\ PgIdle /\ OwIdle /\ CrawlIdle /\ LmIdle
SpecAlphabet == InitAlphabet /\ [][AlphaNext]_vars

InitSparse ==
    SvInit /\ VitIdle /\ AlphaIdle /\ TrainIdle /\ TfidfIdle /\ InferIdle /\ ConcIdle /\ CountIdle /\ DictIdle /\ ConcatIdle /\ OptIdle /\ EvalIdle /\ FormTypeIdle /\ FbIdle /\ PgIdle /\ OwIdle /\ CrawlIdle /\ LmIdle
SpecSparse == InitSparse /\ [][SvNext]_vars

InitTrain ==
    TrainInit /\ VitIdle /\ AlphaIdle /\ SvIdle /\ TfidfIdle /\ InferIdle /\ ConcIdle /\ CountIdle /\ DictIdle /\ ConcatIdle /\ OptIdle /\ EvalIdle /\ FormTypeIdle /\ FbIdle /\ PgIdle /\ OwIdle /\ CrawlIdle /\ LmIdle
SpecTrain == InitTrain /\ [][TrainNext]_vars

InitTfidf ==
    TfidfInit /\ VitIdle /\ AlphaIdle /\ SvIdle /\ TrainIdle /\ InferIdle /\ ConcIdle /\ CountIdle /\ DictIdle /\ ConcatIdle /\ OptIdle /\ EvalIdle /\ FormTypeIdle /\ FbIdle /\ PgIdle /\ OwIdle /\ CrawlIdle /\ LmIdle
SpecTfidf == InitTfidf /\ [][TfidfNext]_vars

InitInfer ==
    InferInit /\ VitIdle /\ AlphaIdle /\ SvIdle /\ TrainIdle /\ TfidfIdle /\ ConcIdle /\ CountIdle /\ DictIdle /\ ConcatIdle /\ OptIdle /\ EvalIdle /\ FormTypeIdle /\ FbIdle /\ PgIdle /\ OwIdle /\ CrawlIdle /\ LmIdle
SpecInfer == InitInfer /\ [][InferNext]_vars

InitConc ==
    ConcInit /\ VitIdle /\ AlphaIdle /\ SvIdle /\ TrainIdle /\ TfidfIdle /\ InferIdle /\ CountIdle /\ DictIdle /\ ConcatIdle /\ OptIdle /\ EvalIdle /\ FormTypeIdle /\ FbIdle /\ PgIdle /\ OwIdle /\ CrawlIdle /\ LmIdle
SpecConc == InitConc /\ [][ConcNext]_vars

InitCount ==
    CountInit /\ VitIdle /\ AlphaIdle /\ SvIdle /\ TrainIdle /\ TfidfIdle /\ InferIdle /\ ConcIdle /\ DictIdle /\ ConcatIdle /\ OptIdle /\ EvalIdle /\ FormTypeIdle /\ FbIdle /\ PgIdle /\ OwIdle /\ CrawlIdle /\ LmIdle
SpecCount == InitCount /\ [][CountNext]_vars

InitDict ==
    DictInit /\ VitIdle /\ AlphaIdle /\ SvIdle /\ TrainIdle /\ TfidfIdle /\ InferIdle /\ ConcIdle /\ CountIdle /\ ConcatIdle /\ OptIdle /\ EvalIdle /\ FormTypeIdle /\ FbIdle /\ PgIdle /\ OwIdle /\ CrawlIdle /\ LmIdle
SpecDict == InitDict /\ [][DictNext]_vars

\* either vectorizer is drawn and fitted
InitFit ==
    \/ InitCount
    \/ InitDict
FitNext == CountDoFit \/ DictDoFit
SpecFit == InitFit /\ [][FitNext]_vars

InitConcat ==
    ConcatInit /\ VitIdle /\ AlphaIdle /\ SvIdle /\ TrainIdle /\ TfidfIdle /\ InferIdle /\ ConcIdle /\ CountIdle /\ DictIdle /\ OptIdle /\ EvalIdle /\ FormTypeIdle /\ FbIdle /\ PgIdle /\ OwIdle /\ CrawlIdle /\ LmIdle
SpecConcat == InitConcat /\ [][ConcatNext]_vars

InitOptim ==
    OptInit /\ VitIdle /\ AlphaIdle /\ SvIdle /\ TrainIdle /\ TfidfIdle /\ InferIdle /\ ConcIdle /\ CountIdle /\ DictIdle /\ ConcatIdle /\ EvalIdle /\ FormTypeIdle /\ FbIdle /\ PgIdle /\ OwIdle /\ CrawlIdle /\ LmIdle
SpecOptim == InitOptim /\ [][OptNext]_vars

InitEval ==
    EvalInit /\ VitIdle /\ AlphaIdle /\ SvIdle /\ TrainIdle /\ TfidfIdle /\ InferIdle /\ ConcIdle /\ CountIdle /\ DictIdle /\ ConcatIdle /\ OptIdle /\ FormTypeIdle /\ FbIdle /\ PgIdle /\ OwIdle /\ CrawlIdle /\ LmIdle
SpecEval == InitEval /\ [][EvalNext]_vars

InitFormType ==
    FormTypeInit /\ VitIdle /\ AlphaIdle /\ SvIdle /\ TrainIdle /\ TfidfIdle /\ InferIdle /\ ConcIdle /\ CountIdle /\ DictIdle /\ ConcatIdle /\ OptIdle /\ EvalIdle /\ FbIdle /\ PgIdle /\ OwIdle /\ CrawlIdle /\ LmIdle
SpecFormType == InitFormType /\ [][FormTypeNext]_vars

InitFb ==
    FbInit /\ VitIdle /\ AlphaIdle /\ SvIdle /\ TrainIdle /\ TfidfIdle /\ InferIdle /\ ConcIdle /\ CountIdle /\ DictIdle /\ ConcatIdle /\ OptIdle /\ EvalIdle /\ FormTypeIdle /\ PgIdle /\ OwIdle /\ CrawlIdle /\ LmIdle
SpecFb == InitFb /\ [][FbNext]_vars

InitPg ==
    PgInit /\ VitIdle /\ AlphaIdle /\ SvIdle /\ TrainIdle /\ TfidfIdle /\ InferIdle /\ ConcIdle /\ CountIdle /\ DictIdle /\ ConcatIdle /\ OptIdle /\ EvalIdle /\ FormTypeIdle /\ FbIdle /\ OwIdle /\ CrawlIdle /\ LmIdle
SpecPg == InitPg /\ [][PgNext]_vars

InitOwlqn ==
    OwInit /\ VitIdle /\ AlphaIdle /\ SvIdle /\ TrainIdle /\ TfidfIdle /\ InferIdle /\ ConcIdle /\ CountIdle /\ DictIdle /\ ConcatIdle /\ OptIdle /\ EvalIdle /\ FormTypeIdle /\ FbIdle /\ PgIdle /\ CrawlIdle /\ LmIdle
SpecOwlqn == InitOwlqn /\ [][OwNext]_vars

InitCrawl ==
    CrawlInit /\ VitIdle /\ AlphaIdle /\ SvIdle /\ TrainIdle /\ TfidfIdle /\ InferIdle /\ ConcIdle /\ CountIdle /\ DictIdle /\ ConcatIdle /\ OptIdle /\ EvalIdle /\ FormTypeIdle /\ FbIdle /\ PgIdle /\ OwIdle /\ LmIdle
SpecCrawl == InitCrawl /\ [][CrawlNext]_vars

InitLbfgs ==
    LmInit /\ VitIdle /\ AlphaIdle /\ SvIdle /\ TrainIdle /\ TfidfIdle /\ InferIdle /\ ConcIdle /\ CountIdle /\ DictIdle /\ ConcatIdle /\ OptIdle /\ EvalIdle /\ FormTypeIdle /\ FbIdle /\ PgIdle /\ OwIdle /\ CrawlIdle
SpecLbfgs == InitLbfgs /\ [][LmNext]_vars

\* a trainer is one goroutine that runs its loop to the end: no step of it
\* waits for anything
SpecOptimFair == SpecOptim /\ WF_vars(OptNext)

----------------------------------------------------------------------------
(* Brute-force reference for Viterbi: enumeration of all L^T label paths. *)
PathsOf(T, L) == [0..(T-1) -> 0..(L-1)]

RECURSIVE PathScoreTo(_, _, _, _)
\* sum_{u<=t} state[u][p[u]] + sum_{1<=u<=t} trans[p[u-1]][p[u]]
PathScoreTo(ss, tr, p, t) ==
    IF t < 0 THEN 0
    ELSE PathScoreTo(ss, tr, p, t - 1) + ss[t][p[t]]
         + (IF t >= 1 THEN tr[p[t-1]][p[t]] ELSE 0)

VitPathScore(p) == PathScoreTo(stateScores, transScores, p, VitT - 1)

VitBestScore ==
    CHOOSE m \in {VitPathScore(p) : p \in PathsOf(VitT, VitL)} :
        \A p \in PathsOf(VitT, VitL) : VitPathScore(p) <= m

VitOptPaths ==
    LET best == VitBestScore
    IN {p \in PathsOf(VitT, VitL) : VitPathScore(p) = best}

\* q comes before p when the paths are compared from the last position back
RevLexLess(q, p, T) ==
    \E t \in 0..(T-1) : /\ q[t] < p[t]
                        /\ \A u \in (t+1)..(T-1) : q[u] = p[u]

\* best score of a prefix path over positions 0..t that ends in label y
BestEnding(t, y) ==
    LET S == {PathScoreTo(stateScores, transScores, p, t) :
                 p \in {q \in PathsOf(t + 1, VitL) : q[t] = y}}
    IN CHOOSE m \in S : \A x \in S : x <= m

MinOf(S) == CHOOSE m \in S : \A x \in S : m <= x

\* C1: for T >= 1 and L >= 1 the score returned by Viterbi is the maximum over
\* all L^T label paths of sum_t state[t][y_t] + sum_{t>=1} trans[y_{t-1}][y_t];
\* the returned path has length T, every element in [0, L), and attains the score.
C1_ViterbiIsMaxPath ==
    (vitPc = "done" /\ VitT >= 1) =>
        /\ vitScore.fin
        /\ vitScore.val = VitBestScore
        /\ \A p \in PathsOf(VitT, VitL) : VitPathScore(p) <= vitScore.val
        /\ DOMAIN vitPath = 0..(VitT - 1)
        /\ \A t \in 0..(VitT - 1) : vitPath[t] \in 0..(VitL - 1)
        /\ VitPathScore(vitPath) = vitScore.val

C1_Witness ==
    /\ vitPc = "done"
    /\ VitT >= 2
    /\ VitL >= 2
    /\ vitPath[0] # vitPath[1]
    /\ \E p \in PathsOf(VitT, VitL) : VitPathScore(p) < vitScore.val

\* C2: ties go to the lowest label index: the final label is the lowest label
\* whose best ending score is the maximum, each earlier label is the lowest best
\* predecessor of its successor, and so the returned path is the optimal path
\* that is smallest when paths are compared from the last position backwards.
C2_TiesToLowestIndex ==
    (vitPc = "done" /\ VitT >= 1) =>
        /\ LET best == VitBestScore
           IN vitPath[VitT - 1] =
                  MinOf({y \in 0..(VitL - 1) : BestEnding(VitT - 1, y) = best})
        /\ \A t \in 0..(VitT - 2) :
               LET nxt == vitPath[t + 1]
                   via == [yp \in 0..(VitL - 1) |->
                              BestEnding(t, yp) + transScores[yp][nxt]]
               IN vitPath[t] =
                      MinOf({yp \in 0..(VitL - 1) :
                                \A z \in 0..(VitL - 1) : via[z] <= via[yp]})
        /\ LET opt == VitOptPaths
           IN /\ vitPath \in opt
              /\ \A q \in opt : q # vitPath => RevLexLess(vitPath, q, VitT)

C2_Witness ==
    /\ vitPc = "done"
    /\ VitT >= 2
    /\ \E t \in 0..(VitT - 1) : vitPath[t] # 0
    /\ LET opt == VitOptPaths
       IN /\ Cardinality(opt) >= 2
          /\ \E q \in opt : q[VitT - 1] # vitPath[VitT - 1]

----------------------------------------------------------------------------
(* Alphabet *)
AlphaWellFormed ==
    /\ DOMAIN alpha.ToStr = 0..(AlphabetSize(alpha) - 1)
    /\ NoDup0(alpha.ToStr)
    /\ DOMAIN alpha.ToID = Range0(alpha.ToStr)
    /\ \A i \in DOMAIN alpha.ToStr : alpha.ToID[alpha.ToStr[i]] = i
    /\ {alpha.ToID[x] : x \in DOMAIN alpha.ToID} = 0..(AlphabetSize(alpha) - 1)
    /\ alpha.ToStr = alphaSeen

AlphaStepOk ==
    LET s == alphaOp'.arg
        present == \E i \in DOMAIN alpha.ToStr : alpha.ToStr[i] = s
    IN /\ \A x \in DOMAIN alpha.ToID :
              x \in DOMAIN alpha'.ToID /\ alpha'.ToID[x] = alpha.ToID[x]
       /\ \A i \in DOMAIN alpha.ToStr :
              i \in DOMAIN alpha'.ToStr /\ alpha'.ToStr[i] = alpha.ToStr[i]
       /\ (alphaOp'.op = "Add" /\ present) =>
              /\ alpha' = alpha
              /\ alpha.ToStr[alphaOp'.ret] = s
       /\ (alphaOp'.op = "Add" /\ ~present) =>
              /\ alphaOp'.ret = AlphabetSize(alpha)
              /\ AlphabetSize(alpha') = AlphabetSize(alpha) + 1
              /\ alpha'.ToStr[alphaOp'.ret] = s
       /\ alphaOp'.op = "Get" =>
              /\ alpha' = alpha
              /\ present => alpha.ToStr[alphaOp'.ret] = s
              /\ ~present => alphaOp'.ret = -1

\* C7: after any sequence of Add calls the ids are exactly 0..Size()-1 in
\* first-seen order, ToStr has no duplicates and ToID[ToStr[i]] = i; Add of a
\* present string returns its id and changes nothing; an assigned id never
\* changes; Get returns the id of a present string and -1 for an absent one
\* and does not modify the alphabet.
C7_AlphabetBijection == [](AlphaWellFormed) /\ [][AlphaStepOk]_vars

C7_Witness ==
    /\ alphaOp.op = "Add"
    /\ AlphabetSize(alpha) >= 3
    /\ alphaOp.ret = 1
    /\ alpha.ToStr[0] > alpha.ToStr[1]

----------------------------------------------------------------------------
(* SparseVector *)
SvShapeOk ==
    /\ NoDup0(sv.Indices)
    /\ Len0(sv.Indices) = Len0(sv.Values)
    /\ DOMAIN sv.Indices = 0..(Len0(sv.Indices) - 1)
    /\ DOMAIN sv.Values = DOMAIN sv.Indices

SvStepOk ==
    LET idx == svOp'.idx
        val == svOp'.val
    IN /\ sv'.Dim = sv.Dim
       /\ idx \in Range0(sv.Indices) =>
              /\ sv'.Indices = sv.Indices
              /\ \E i \in DOMAIN sv.Indices :
                    /\ sv.Indices[i] = idx
                    /\ sv'.Values = [sv.Values EXCEPT ![i] = val]
       /\ idx \notin Range0(sv.Indices) =>
              /\ sv'.Indices = Append0(sv.Indices, idx)
              /\ sv'.Values = Append0(sv.Values, val)

\* C6 as stated: after NewSparseVector(dim) and any sequence of Set calls the
\* indices are unique, len(Indices) = len(Values) and every stored index < Dim.
C6_AsStated ==
    svOp.op # "idle" =>
        /\ SvShapeOk
        /\ \A i \in DOMAIN sv.Indices : sv.Indices[i] < sv.Dim

\* C6 amended: after NewSparseVector(dim) and any sequence of Set(idx, val)
\* calls the indices are unique and len(Indices) = len(Values); Set does not
\* compare idx with Dim, so the stored indices are exactly the idx values that
\* were passed to Set (all of them < Dim only when every call used idx < Dim);
\* Set on a present index overwrites that value in place and leaves the rest
\* unchanged, Set on a new index appends exactly one entry.
C6_SetKeepsShape ==
    /\ [](svOp.op # "idle" => (SvShapeOk /\ Range0(sv.Indices) = svCalls))
    /\ [][SvStepOk]_vars

C6_Witness ==
    /\ svOp.op = "Set"
    /\ Len0(sv.Indices) >= 2
    /\ svOp.idx = sv.Indices[0]
    /\ sv.Values[0] # sv.Values[1]
    /\ \E i \in DOMAIN sv.Indices : sv.Indices[i] >= sv.Dim

----------------------------------------------------------------------------
(* crf.Train: how a run ends and what it hands back. *)

TrainReturned == trPc = "returned"
TrainOnlyEmptySeqs == \A i \in DOMAIN trSeqs : Len0(trSeqs[i].Features) = 0

C4_AsStated ==
    TrainReturned =>
        /\ ~(~trRet.nil /\ trRet.NumLabels = 0 /\ Len0(trRet.Weights) = 0)
        /\ (TrainOnlyEmptySeqs => trRet.nil)

\* C8: a returned model has len(Weights) = TransOffset() + NumLabels^2 with
\* TransOffset() = |Attributes| * NumLabels; StateFeatureIndex is one-to-one
\* from the (attrId, labelId) pairs onto [0, TransOffset()) and
\* TransFeatureIndex is one-to-one from the (fromId, toId) pairs onto
\* [TransOffset(), len(Weights)).
C8_WeightLayout ==
    TrainReturned =>
        LET m == trRet
            L == m.NumLabels
            A == AlphabetSize(m.Attributes)
            SP == (0..(A-1)) \X (0..(L-1))
            TP == (0..(L-1)) \X (0..(L-1))
        IN /\ L = AlphabetSize(m.Labels)
           /\ Len0(m.Weights) = TransOffset(m) + L * L
           /\ TransOffset(m) = A * L
           /\ {StateFeatureIndex(m, p[1], p[2]) : p \in SP} = 0..(TransOffset(m) - 1)
           /\ \A p, q \in SP :
                 StateFeatureIndex(m, p[1], p[2]) = StateFeatureIndex(m, q[1], q[2])
                    => p = q
           /\ {TransFeatureIndex(m, p[1], p[2]) : p \in TP} =
                 TransOffset(m)..(Len0(m.Weights) - 1)
           /\ \A p, q \in TP :
                 TransFeatureIndex(m, p[1], p[2]) = TransFeatureIndex(m, q[1], q[2])
                    => p = q

C8_Witness ==
    /\ TrainReturned
    /\ trRet.NumLabels = 2
    /\ AlphabetSize(trRet.Attributes) = 2
    /\ Len0(trRet.Weights) = 8
    /\ trIter >= 1

----------------------------------------------------------------------------
(* TfidfVectorizer and its stop words *)

\* the tokens a vocabulary term is made of
TermTokens(term) == SeqRange(Tokenize(term))

\* C5 as stated: with the word analyzer and a non-empty stop-word set, after
\* Fit no vocabulary term has a stop word among its tokens, and no entry of a
\* transformed vector belongs to a term with a stop-word token.
C5_AsStated ==
    (tvPc \in {"fitted", "transformed"} /\ tv.CountVec.Analyzer = "word" /\ tv.StopWords # {}) =>
        /\ \A term \in DOMAIN tv.CountVec.Vocabulary :
              TermTokens(term) \cap tv.StopWords = {}
        /\ \A i \in DOMAIN tvOut.Indices :
              \A term \in DOMAIN tv.CountVec.Vocabulary :
                 tv.CountVec.Vocabulary[term] = tvOut.Indices[i]
                    => TermTokens(term) \cap tv.StopWords = {}

----------------------------------------------------------------------------
(* crf inference and attributes the model does not know *)

InfKnown(attr) == attr \in DOMAIN infModel.Attributes.ToID

\* the input with the unknown attributes removed
InfInputKnownOnly ==
    [t \in DOMAIN infInput |->
        [attr \in {x \in DOMAIN infInput[t] : InfKnown(x)} |-> infInput[t][attr]]]

\* the state scores summed over the known attributes only
InfKnownScores ==
    [t \in DOMAIN infInput |->
        [y \in 0..(infModel.NumLabels - 1) |->
            SumFn([attr \in {x \in DOMAIN infInput[t] : InfKnown(x)} |->
                      infModel.Weights[infModel.Attributes.ToID[attr] * infModel.NumLabels + y]
                         * infInput[t][attr]])]]

InfCallOn(features) ==
    CASE infOp = "ComputeStateScores" -> ComputeStateScores(infModel, features)
      [] infOp = "Predict" -> Predict(infModel, features)
      [] infOp = "PredictMarginals" -> PredictMarginals(infModel, features)

\* C10: on a model with at least one label, ComputeStateScores, Predict and
\* PredictMarginals do not fail, an unknown attribute adds nothing to any
\* state score, and each returns what it returns for the input with the
\* unknown attributes removed.
C10_UnknownAttrsDropped ==
    (infPc = "done" /\ infModel.NumLabels >= 1) =>
        /\ ~infRes.panic
        /\ infRes = InfCallOn(InfInputKnownOnly)
        /\ ComputeStateScores(infModel, infInput) = Returned(InfKnownScores)
        /\ (infOp = "Predict" => Len0(infRes.val) = Len0(infInput))
        /\ (infOp = "PredictMarginals" => Len0(infRes.val) = Len0(infInput))

C10_Witness ==
    /\ infPc = "done"
    /\ infOp = "Predict"
    /\ infModel.NumLabels = 2
    /\ Len0(infInput) = 2
    /\ \E attr \in DOMAIN infInput[0] : ~InfKnown(attr)
    /\ \E attr \in DOMAIN infInput[0] : InfKnown(attr)
    /\ infRes.val[0] # infRes.val[1]

----------------------------------------------------------------------------
(* Concurrent inference calls *)

\* what the call returns when it runs alone on the shared models
ConcAlone(pr) ==
    CASE pr.op = "Predict" -> {Predict(cnCrf, pr.input)}
      [] pr.op = "PredictMarginals" -> {PredictMarginals(cnCrf, pr.input)}
      [] pr.op = "ClassifyProba" -> ClassifyProba(cnFt, pr.input)
      [] pr.op = "Classify" -> Classify(cnFt, pr.input)

\* C9: no step of an inference call (Predict, PredictMarginals, Classify,
\* ClassifyProba) changes the shared crf model or the shared form-type model,
\* whatever the other calls are doing, and every call that has returned holds
\* a result it can return when it runs alone.
C9_InferenceReadsOnly ==
    /\ [][cnCrf' = cnCrf /\ cnFt' = cnFt]_vars
    /\ [](\A p \in DOMAIN cnProc :
             cnProc[p].pc = "done" => cnProc[p].res \in ConcAlone(cnProc[p]))

C9_Witness ==
    /\ cnOverlap
    /\ cnProc[1].op = "Predict" /\ cnProc[1].pc = "done"
    /\ Len0(cnProc[1].input) = 2
    /\ cnProc[2].op = "Classify" /\ cnProc[2].pc = "done"
    /\ cnProc[2].res = "login"

(***************************************************************************)
(* CountVectorizer.Fit: what the vocabulary holds and how it is numbered *)
(***************************************************************************)
\* the documents of the corpus that hold the term at least once
DocsWith(cv, corpus, term) ==
    {i \in DOMAIN corpus : \E j \in DOMAIN Analyze(cv, corpus[i]) :
                               Analyze(cv, corpus[i])[j] = term}

\* every analyzed n-gram of the corpus
CorpusTerms(cv, corpus) ==
    UNION {{Analyze(cv, corpus[i])[j] : j \in DOMAIN Analyze(cv, corpus[i])} :
              i \in DOMAIN corpus}

\* C11: after Fit the vocabulary is exactly the set of analyzed n-grams
\* that occur in at least MinDF documents (a repeat inside one document
\* counts once), VocabSize() is the size of that set, and the column
\* indices are exactly 0..VocabSize()-1, each used by one term.
C11_VocabularyIsMinDfTerms ==
    cvPc = "fitted" =>
        LET voc  == cvec.Vocabulary
            kept == {f \in CorpusTerms(cvec, cvCorpus) :
                        Cardinality(DocsWith(cvec, cvCorpus, f)) >= cvec.MinDF}
        IN /\ DOMAIN voc = kept
           /\ CountVocabSize(cvec) = Cardinality(kept)
           /\ {voc[f] : f \in DOMAIN voc} = 0..(CountVocabSize(cvec) - 1)
           /\ \A f, g \in DOMAIN voc : voc[f] = voc[g] => f = g

\* a fitted vectorizer with MinDF 2 that dropped a term standing twice in
\* one document
C11_Witness ==
    /\ cvPc = "fitted"
    /\ cvec.MinDF = 2
    /\ \E f \in CorpusTerms(cvec, cvCorpus) :
          /\ f \notin DOMAIN cvec.Vocabulary
          /\ \E i \in DOMAIN cvCorpus :
                Cardinality({j \in DOMAIN Analyze(cvec, cvCorpus[i]) :
                                Analyze(cvec, cvCorpus[i])[j] = f}) >= 2


\* the orders a slice of n elements can be handed over in
Perms(n) == {p \in [1..n -> 1..n] : \A i, j \in 1..n : p[i] = p[j] => i = j}
Permuted(q, p) == [i \in DOMAIN q |-> q[p[i]]]

\* a term-to-column map that follows the byte order of the terms
AscendingColumns(index) ==
    \A f \in DOMAIN index : index[f] = Cardinality({g \in DOMAIN index : StrLess(g, f)})

\* C12: columns are assigned in ascending lexicographic order of the
\* feature strings (the i-th smallest retained term gets column i), so Fit
\* of a CountVectorizer or of a DictVectorizer on any permutation of the
\* same corpus gives the identical vocabulary mapping.
C12_ColumnsSortedAnyOrder ==
    /\ cvPc = "fitted" =>
          /\ AscendingColumns(cvec.Vocabulary)
          /\ \A p \in Perms(Len(cvCorpus)) :
                CountFit(cvec, Permuted(cvCorpus, p)).Vocabulary = cvec.Vocabulary
    /\ dvPc = "fitted" =>
          /\ AscendingColumns(dvec.FeatureIndex)
          /\ \A i \in DOMAIN dvec.FeatureNames : dvec.FeatureIndex[dvec.FeatureNames[i]] = i
          /\ \A p \in Perms(Len(dvData)) :
                DictFit(NewDictVectorizer, Permuted(dvData, p)) = dvec

\* a fitted CountVectorizer whose corpus meets its second-smallest term
\* before its smallest
C12_Witness ==
    /\ cvPc = "fitted"
    /\ Len(cvCorpus) = 2
    /\ \E f, g \in DOMAIN cvec.Vocabulary :
          /\ cvec.Vocabulary[f] = 0 /\ cvec.Vocabulary[g] = 1
          /\ g \in SeqRange(Analyze(cvec, cvCorpus[1]))
          /\ f \notin SeqRange(Analyze(cvec, cvCorpus[1]))


(***************************************************************************)
(* DictVectorizer.Transform *)
(***************************************************************************)
\* the feature string of an entry: "name=value" for a string value, the
\* bare name for a boolean or a number
DerivedString(name, value) ==
    IF value.kind = "string" THEN name \o <<"=">> \o value.str ELSE name

DerivedStrings(d) == {DerivedString(k, d[k]) : k \in DOMAIN d}

\* C13: DictVectorizer.Transform never fails and drops what Fit did not
\* see: the output has Dim = VocabSize(), it has an entry at column c only
\* if some (key, value) of the input derives the feature string of column
\* c, and an input whose derived keys were all unseen gives a vector with
\* no entries.
C13_TransformDropsUnseen ==
    dvPc = "transformed" =>
        /\ dvOut.Dim = DictVocabSize(dvec)
        /\ \A i \in DOMAIN dvOut.Indices :
              /\ dvOut.Indices[i] \in DOMAIN dvec.FeatureNames
              /\ dvec.FeatureNames[dvOut.Indices[i]] \in DerivedStrings(dvInput)
        /\ DerivedStrings(dvInput) \cap Range0(dvec.FeatureNames) = {} =>
              (dvOut.Indices = << >> /\ dvOut.Values = << >>)

\* a Transform of a dict with one entry Fit saw and one it did not, which
\* returned a single entry
C13_Witness ==
    /\ dvPc = "transformed"
    /\ DictVocabSize(dvec) >= 2
    /\ \E k, l \in DOMAIN dvInput :
          /\ DerivedString(k, dvInput[k]) \in Range0(dvec.FeatureNames)
          /\ DerivedString(l, dvInput[l]) \notin Range0(dvec.FeatureNames)
    /\ Len0(dvOut.Indices) = 1


(***************************************************************************)
(* ConcatSparse *)
(***************************************************************************)
\* the Dim and the number of entries of the inputs before input k
DimsBefore(in, k) == SumFn([j \in 0..(k - 1) |-> in[j].Dim])
NnzBefore(in, k) == SumFn([j \in 0..(k - 1) |-> Len0(in[j].Indices)])

\* C14: for sparse vectors a, b, c with distinct indices below their Dim,
\* ConcatSparse([a, b, c]) equals ConcatSparse([ConcatSparse([a, b]), c]):
\* Dim is the sum of the Dims, and the entries are those of the inputs, in
\* order, each shifted by the sum of the Dims of the inputs before it.
C14_ConcatAssociative ==
    ccPc = "nested" =>
        /\ ccFlat = ccNested
        /\ ccFlat.Dim = DimsBefore(ccIn, 3)
        /\ DOMAIN ccFlat.Indices = 0..(NnzBefore(ccIn, 3) - 1)
        /\ DOMAIN ccFlat.Values = DOMAIN ccFlat.Indices
        /\ \A k \in 0..2 : \A i \in DOMAIN ccIn[k].Indices :
              /\ ccFlat.Indices[NnzBefore(ccIn, k) + i] = ccIn[k].Indices[i] + DimsBefore(ccIn, k)
              /\ ccFlat.Values[NnzBefore(ccIn, k) + i] = ccIn[k].Values[i]

\* both concatenations made of three vectors that each hold an entry, the
\* first of Dim 2
C14_Witness ==
    /\ ccPc = "nested"
    /\ ccIn[0].Dim = 2
    /\ \A k \in 0..2 : Len0(ccIn[k].Indices) = 1
    /\ ccNested.Indices[1] = ccIn[1].Indices[0] + 2


(***************************************************************************)
(* The loops of the two trainers *)
(***************************************************************************)
OptBounded ==
    /\ opRuns <= (IF opCap < 0 THEN 0 ELSE opCap)
    /\ opEvals <= LineSearchTrials

\* C15: both trainers always terminate, bounded only by their iteration
\* caps: crf.Train runs at most MaxIterations iterations, TrainFormType at
\* most MaxIter, and every line search evaluates the objective at most 20
\* times, whatever the objective values are.
C15_TrainersTerminate ==
    /\ [](opPc # "idle" => OptBounded)
    /\ <>(opPc = "returned")

\* a run that used every iteration of its cap and whose last line search
\* used every trial
C15_Witness ==
    /\ opPc = "returned"
    /\ opCap = MaxIters
    /\ opRuns = opCap
    /\ opEvals = LineSearchTrials
    /\ opStop = "maxiter"


(***************************************************************************)
(* groupKFold and the folds of Evaluate *)
(***************************************************************************)
\* the folds are split and handed to the loop
EvalFolded == evPc \in {"fold", "test", "panic", "done"} /\ Len0(evDomains) > 0

\* how often example i stands in fold f
TimesIn(f, i) == Cardinality({k \in DOMAIN evFolds[f] : evFolds[f][k] = i})

DomainsOf(indices) == {evDomains[i] : i \in indices}

FtVocabSizes(m) ==
    SumFn([i \in DOMAIN m.vecTypes |->
              CASE m.vecTypes[i] = "dict"  -> DictVocabSize(m.dictVecs[i])
                [] m.vecTypes[i] = "count" -> CountVocabSize(m.countVecs[i])
                [] m.vecTypes[i] = "tfidf" -> CountVocabSize(m.tfidfVecs[i].CountVec)])

\* C17: for every model TrainFormType returns, len(Coef) = len(Intercept)
\* = len(Classes), every Coef[c] has totalDim entries, totalDim is the sum
\* of VocabSize() over the fitted vectorizers of all pipelines, and the
\* vector extractFeatures builds at inference has that dimension.
C17_ModelShape ==
    /\ ftPc \in {"returned", "extracted"} =>
          /\ Len0(ftModel.Coef) = Len0(ftModel.Classes)
          /\ Len0(ftModel.Intercept) = Len0(ftModel.Classes)
          /\ DOMAIN ftModel.Coef = 0..(Len0(ftModel.Classes) - 1)
          /\ DOMAIN ftModel.Intercept = DOMAIN ftModel.Coef
          /\ \A c \in DOMAIN ftModel.Coef :
                DOMAIN ftModel.Coef[c] = 0..(FtVocabSizes(ftModel) - 1)
    /\ ftPc = "extracted" => ftOut.Dim = FtVocabSizes(ftModel)

\* a model of two classes over every pipeline's vocabulary, asked for the
\* features of a form it was not trained on
C17_Witness ==
    /\ ftPc = "extracted"
    /\ Len0(ftModel.Classes) = 2
    /\ \A i \in DOMAIN ftModel.vecDims : ftModel.vecDims[i] > 0
    /\ ftProbe \notin Range0(ftForms)
    /\ Len0(ftOut.Indices) < ftOut.Dim


(***************************************************************************)
(* crf.Train: the order of the phases of an iteration *)
(***************************************************************************)
TrainInLoop == trPc \in {"objective", "linesearch", "update", "history", "converge"}

\* the phase that follows each phase inside one iteration
TrainPhaseOrder ==
    /\ trPc = "objective"  => trPc' = "linesearch"
    /\ trPc = "linesearch" => trPc' \in {"update", "return"}
    /\ trPc = "update"     => trPc' = "history"
    /\ trPc = "history"    => trPc' = "converge"
    /\ trPc = "converge"   => trPc' \in {"objective", "return"}

\* the weights change only in the update phase, after a nonzero step of the
\* line search of the same iteration
TrainWeightsAfterStep ==
    (TrainInLoop /\ trModel' # trModel) =>
        /\ trPc = "update"
        /\ trStep = "nonzero"
        /\ trIter' = trIter
    
\* the update phase is entered only from a line search with a nonzero step
TrainUpdateAfterSearch ==
    (trPc' = "update") => (trPc = "linesearch" /\ trStep' = "nonzero" /\ trIter' = trIter)

\* the history changes only in the history phase, entered from the update
TrainHistoryAfterUpdate ==
    /\ (TrainInLoop /\ trLbfgs' # trLbfgs) => trPc = "history"
    /\ (trPc' = "history") => (trPc = "update" /\ trIter' = trIter)

\* the three ways the loop is left
TrainLeaves ==
    (trPc' = "return") =>
        \/ trPc = "linesearch" /\ trStep' = "zero" /\ trStop' = "linesearch"
        \/ trPc = "converge" /\ trStop' = "converged"
        \/ /\ trPc \in {"call", "converge"}
           /\ trStop' = "maxiter"
           /\ trIter' = trConfig.MaxIterations

\* C19: in every run of crf.Train the phases of an iteration occur in the
\* order objective, line search, weight update, history update, convergence
\* test; the weights change only after the line search of the same
\* iteration returned a nonzero step, the history only after that weight
\* update, and the run ends only from the line search (zero step), from the
\* convergence test, or because MaxIterations iterations were run.
C19_PhaseOrder ==
    /\ [][TrainPhaseOrder]_vars
    /\ [][TrainWeightsAfterStep]_vars
    /\ [][TrainUpdateAfterSearch]_vars
    /\ [][TrainHistoryAfterUpdate]_vars
    /\ [][TrainLeaves]_vars
    /\ [](TrainInLoop => trIter < trConfig.MaxIterations)
    /\ [](trPc = "returned" => trStop \in {"linesearch", "converged", "maxiter"})

\* a run that went through a whole iteration, stored a pair in the history,
\* and ended in the line search of the next iteration
C19_Witness ==
    /\ trPc = "returned"
    /\ trStop = "linesearch"
    /\ trIter >= 1
    /\ trLbfgs.k >= 1
    /\ \E i \in DOMAIN trModel.Weights : trModel.Weights[i] # 0


(***************************************************************************)
(* crf.Train: the step the line search returns *)
(***************************************************************************)
\* the step in hand was evaluated by the line search and passed its test
OptStepPassed == opRet.exp \in opTried /\ opPassed

\* C20 as stated: in crf.Train every nonzero step the line search returns
\* was evaluated by it and satisfies the Armijo condition; when 20 halvings
\* find no such step the line search returns zero and training stops, so
\* the weights an iteration adopts are always a trial point that passed.
C20_AsStated ==
    opKind = "crf" =>
        /\ (opPc = "step" /\ opRet # ZeroStep) => OptStepPassed
        /\ (opPc = "update") => OptStepPassed
        /\ \A a \in opAdopted : a.tried /\ a.passed

\* what does hold: a step returned before the 20th halving passed the test
OptEarlyStepPassed ==
    (opKind = "crf" /\ opPc \in {"step", "update"} /\ opRet.kind = "pow"
        /\ opRet.exp < LineSearchTrials) => OptStepPassed


(***************************************************************************)
(* ForwardBackward: the marginals of a position *)
(***************************************************************************)
FbTolerance == 1000000

\* |sum - 1| <= 1e-6
WithinTolerance(sum) ==
    /\ sum.k = "fin"
    /\ (IF sum.n >= sum.d THEN sum.n - sum.d ELSE sum.d - sum.n) * FbTolerance <= sum.d

\* every score is one whose exponential is a positive finite number
FbModerate ==
    /\ \A t \in DOMAIN fbState : \A y \in DOMAIN fbState[t] : fbState[t][y] \in {"0", "ln2"}
    /\ \A i \in DOMAIN fbTrans : \A j \in DOMAIN fbTrans[i] : fbTrans[i][j] = "0"

\* C18 as stated: for every forward-backward run on T >= 1 positions, the
\* marginals of each position sum to 1 within 1e-6.
C18_AsStated ==
    (fbPc = "done" /\ Len0(fbState) >= 1) =>
        \A t \in DOMAIN fbRes.Marginals : WithinTolerance(XSum(fbRes.Marginals[t]))

\* what does hold: with at least one label and scores whose exponentials
\* are positive and finite, the marginals of each position sum to 1
FbModerateSumsToOne ==
    (fbPc = "done" /\ Len0(fbState) >= 1 /\ Len0(fbState[0]) >= 1 /\ FbModerate) =>
        \A t \in DOMAIN fbRes.Marginals : XSum(fbRes.Marginals[t]) = XOne


(***************************************************************************)
(* TrainFormType: the step the line search returns *)
(***************************************************************************)
\* C21 as stated: in TrainFormType every parameter update uses a step at
\* which the line search observed a strictly lower objective, so parameters
\* are never moved by a step that did not decrease the objective.
C21_AsStated ==
    opKind = "logreg" =>
        /\ (opPc \in {"step", "update"}) => OptStepPassed
        /\ \A a \in opAdopted : a.tried /\ a.passed

\* what does hold: a step returned before the 20th halving was evaluated
\* and gave a lower objective
OptEarlyStepDecreases ==
    (opKind = "logreg" /\ opPc \in {"step", "update"} /\ opRet.exp < LineSearchTrials)
        => OptStepPassed


(***************************************************************************)
(* crf.Train: a direction that is not a descent direction *)
(***************************************************************************)
\* the line search of the current iteration met dot(dir, pg) >= 0
OptNonDescent == opKind = "crf" /\ opDirDeriv = "nonneg"

\* C22: when dot(dir, pg) >= 0 the line search returns step 0 without
\* evaluating the objective and crf.Train stops at once: from then on no
\* weight and no history entry is changed and no further iteration is run.
C22_NonDescentStops ==
    /\ [](OptNonDescent =>
            /\ opRet = ZeroStep
            /\ opEvals = 0
            /\ opTried = {}
            /\ opPc \in {"step", "return", "returned"}
            /\ opPc # "step" => opStop = "linesearch")
    /\ [][OptNonDescent =>
            /\ opPc' \in {"return", "returned"}
            /\ opAdopted' = opAdopted
            /\ opRuns' = opRuns
            /\ opIter' = opIter
            /\ opEvals' = opEvals]_vars

\* a run that made one update and met a non-descent direction in its second
\* iteration
C22_Witness ==
    /\ OptNonDescent
    /\ opPc = "returned"
    /\ opStop = "linesearch"
    /\ opRuns = 2
    /\ Cardinality(opAdopted) = 1


(***************************************************************************)
(* crf.Train: the pseudo-gradient *)
(***************************************************************************)
AbsInt(x) == IF x < 0 THEN 0 - x ELSE x

\* C25: the pseudo-gradient is grad[i] + C1 for w[i] > 0, grad[i] - C1 for
\* w[i] < 0, and for w[i] = 0 it is grad[i] + C1 if that is negative,
\* grad[i] - C1 if that is positive, and 0 otherwise; at a zero weight it is
\* 0 exactly when |grad[i]| <= C1; newPG follows the same rule as pg.
C25_PseudoGradientRule ==
    pgPc \in {"pg", "newPG"} =>
        /\ DOMAIN pgOut = DOMAIN pgW
        /\ \A i \in DOMAIN pgW :
              /\ pgW[i] > 0 => pgOut[i] = pgGrad[i] + pgC1
              /\ pgW[i] < 0 => pgOut[i] = pgGrad[i] - pgC1
              /\ pgW[i] = 0 =>
                    /\ pgGrad[i] + pgC1 < 0 => pgOut[i] = pgGrad[i] + pgC1
                    /\ (pgGrad[i] + pgC1 >= 0 /\ pgGrad[i] - pgC1 > 0)
                          => pgOut[i] = pgGrad[i] - pgC1
                    /\ (pgGrad[i] + pgC1 >= 0 /\ pgGrad[i] - pgC1 <= 0)
                          => pgOut[i] = 0
                    /\ (pgOut[i] = 0) <=> (AbsInt(pgGrad[i]) <= pgC1)

\* newPG of a point with a zero weight whose gradient lies on the edge of
\* the interval [-C1, C1] and a negative weight
C25_Witness ==
    /\ pgPc = "newPG"
    /\ pgC1 > 0
    /\ \E i, j \in DOMAIN pgW :
          /\ pgW[i] = 0 /\ pgGrad[i] = 0 - pgC1 /\ pgOut[i] = 0
          /\ pgW[j] < 0 /\ pgOut[j] # 0


(***************************************************************************)
(* crf.Train: the orthant projection of the weight update *)
(***************************************************************************)
OppositeSigns(a, b) == (a > 0 /\ b < 0) \/ (a < 0 /\ b > 0)
SameSigns(a, b) == (a > 0 /\ b > 0) \/ (a < 0 /\ b < 0)

\* w_old[i] + step*dir[i] of the update just made
OwUnprojected(i) == owPrevW[i] + StepTimes(owStep.k, owDir[i])

\* C23: with C1 > 0, after a weight update no weight has changed sign, a
\* weight whose unprojected value has the sign opposite to the old weight
\* is exactly 0, and the history entry s is the difference of the projected
\* weights.
C23_OrthantProjection ==
    (owPc = "updated" /\ owC1 > 0) =>
        /\ \A i \in DOMAIN owW :
              /\ owW[i] * owPrevW[i] >= 0
              /\ ~OppositeSigns(owW[i], owPrevW[i])
              /\ OppositeSigns(OwUnprojected(i), owPrevW[i]) => owW[i] = 0
              /\ ~OppositeSigns(OwUnprojected(i), owPrevW[i]) => owW[i] = OwUnprojected(i)
              /\ owS[i] = owW[i] - owPrevW[i]
        /\ owW = owTrial

\* an update in which one weight crossed zero and was set to 0, so that s
\* differs from the unprojected difference, and another weight moved freely
C23_Witness ==
    /\ owPc = "updated"
    /\ owC1 > 0
    /\ \E i, j \in DOMAIN owW :
          /\ OppositeSigns(OwUnprojected(i), owPrevW[i])
          /\ owW[i] = 0
          /\ owS[i] # OwUnprojected(i) - owPrevW[i]
          /\ owW[j] # owPrevW[j] /\ owW[j] # 0

(***************************************************************************)
(* crf.Train: the orthant restriction of the direction *)
(***************************************************************************)
OwRestricted == owPc \in {"linesearch", "stopped", "update", "updated"}

C26_AsStated ==
    (crPc = "done" /\ crStop = "end"
        /\ ~BudgetSpent(crCollected, crTotal, crMaxPerSite, crMaxTotal)) =>
        \A k \in DOMAIN crLinks : crLinks[k] \in crVisited

\* what does hold: only the homepage and the links found on it are visited
CrawlVisitsHomeLinksOnly ==
    crVisited \subseteq ({CrawlHome} \cup Range0(crSite[CrawlHome]))


(***************************************************************************)
(* crf.Train: the indices into labels, attributes, weights and gradient *)
(***************************************************************************)
TrainPrepared == trPc \notin {"idle", "call"}

\* indices the loops of Train form from the internal sequences
TrainGoldIndices ==
    UNION {UNION {{StateFeatureIndex(trModel, a, trInternals[i].labels[t])
                      : a \in trInternals[i].features[t]}
                     : t \in DOMAIN trInternals[i].features}
              : i \in DOMAIN trInternals}
TrainTransIndices ==
    {TransFeatureIndex(trModel, i, j) :
        i \in 0..(trModel.NumLabels - 1), j \in 0..(trModel.NumLabels - 1)}

\* C27: for sequences whose Features and Labels have equal length, every
\* internal label id lies in [0, NumLabels), every attribute id in
\* [0, |Attributes|), and every weight or gradient index Train forms lies in
\* [0, NumWeights()).
C27_IndicesInRange ==
    TrainPrepared =>
        LET L == trModel.NumLabels
            n == NumWeights(trModel)
            InRange(idx) == 0 <= idx /\ idx < n
        IN /\ DOMAIN trModel.Weights = 0..(n - 1)
           /\ \A i \in DOMAIN trInternals :
                 /\ DOMAIN trInternals[i].labels = DOMAIN trSeqs[i].Features
                 /\ \A t \in DOMAIN trInternals[i].labels :
                       /\ trInternals[i].labels[t] \in 0..(L - 1)
                       /\ \A a \in trInternals[i].features[t] :
                             /\ a \in 0..(AlphabetSize(trModel.Attributes) - 1)
                             /\ InRange(StateFeatureIndex(trModel, a, trInternals[i].labels[t]))
                             /\ \A y \in 0..(L - 1) :
                                   InRange(StateFeatureIndex(trModel, a, y))
                       /\ (t + 1) \in DOMAIN trInternals[i].labels =>
                             InRange(TransFeatureIndex(trModel, trInternals[i].labels[t],
                                                       trInternals[i].labels[t + 1]))
           /\ \A i, j \in 0..(L - 1) : InRange(TransFeatureIndex(trModel, i, j))

\* two sequences with different labels, two labels and two attributes in
\* all, about to be used by the first objective evaluation; the last weight
\* is a transition weight
C27_Witness ==
    /\ trPc = "objective"
    /\ Len0(trSeqs) = 2
    /\ trModel.NumLabels = 2
    /\ AlphabetSize(trModel.Attributes) = 2
    /\ trInternals[0].labels # trInternals[1].labels
    /\ (NumWeights(trModel) - 1) \in TrainTransIndices
    /\ TrainGoldIndices # {}


(***************************************************************************)
(* FormTypeModel.Classify: the class of a form *)
(***************************************************************************)
ClassifyDone(p) == cnProc[p].op = "Classify" /\ cnProc[p].pc = "done"

\* C28 as stated: Classify is a deterministic function of the model and the
\* form: it returns a class of maximal probability, and calls with the same
\* model and form return the same class also when classes tie.
C28_AsStated ==
    /\ cnProc # << >> =>
          \A p, q \in Procs :
              (ClassifyDone(p) /\ ClassifyDone(q) /\ cnProc[p].input = cnProc[q].input)
                  => cnProc[p].res = cnProc[q].res

\* what does hold: the class returned has a probability no other class
\* exceeds
ClassifyReturnsAMaximum ==
    cnProc # << >> =>
        \A p \in Procs :
            ClassifyDone(p) =>
                \E proba \in ClassifyProba(cnFt, cnProc[p].input) :
                    /\ cnProc[p].res \in DOMAIN proba
                    /\ \A cls \in DOMAIN proba :
                          ~(proba[cls].shift > proba[cnProc[p].res].shift)


(***************************************************************************)
(* Evaluate: the training set of a fold *)
(***************************************************************************)
\* C29 as stated: for every non-empty set of annotations each fold that
\* Evaluate evaluates has a non-empty training set, also with a single
\* domain or nFolds = 1, so that Evaluate completes instead of training on
\* nothing.
C29_AsStated ==
    Len0(evDomains) > 0 =>
        /\ evPc # "panic"
        /\ \A s \in evSplits : s.train # {}

\* what does hold: with annotations of at least two domains and at least
\* two folds no training set is empty
EvalTwoDomainsTrainOnSomething ==
    (Cardinality(Range0(evDomains)) >= 2 /\ evNFolds >= 2) =>
        /\ evPc # "panic"
        /\ \A s \in evSplits : s.train # {}


(***************************************************************************)
(* The L-BFGS memory *)
(***************************************************************************)
\* the id of the j-th most recently accepted update (j = 1 is the newest)
LmRecent(j) == lmAccepted[Len(lmAccepted) - j + 1]

\* size is min(number of accepted updates, m), and every stored pair was
\* stored by an accepted update and has sy > 0 (so rho = 1/sy > 0)
LmStored ==
    /\ lmL.size = IF Len(lmAccepted) < LbfgsM THEN Len(lmAccepted) ELSE LbfgsM
    /\ lmL.k = Len(lmAccepted)
    /\ \A i \in 0..(LbfgsM - 1) :
          lmL.slots[i] # NoPair =>
              /\ lmL.slots[i].sy > 0
              /\ \E j \in 1..Len(lmAccepted) : lmAccepted[j] = lmL.slots[i].id

\* computeDirection reads the size most recent pairs: the first loop from
\* the newest to the oldest, the second from the oldest to the newest,
\* alpha[i] with the same pair in both, the scaling the newest, and no
\* empty slot
LmReadsRecent ==
    lmReads.ran =>
        /\ Len(lmReads.first) = lmL.size
        /\ Len(lmReads.second) = lmL.size
        /\ \A j \in 1..lmL.size :
              /\ lmReads.first[j].pair # NoPair
              /\ lmReads.first[j].pair.id = LmRecent(j)
              /\ lmReads.second[j].pair # NoPair
              /\ lmReads.second[j].pair.id = LmRecent(lmL.size - j + 1)
        /\ \A a \in 1..lmL.size, b \in 1..lmL.size :
              lmReads.first[a].i = lmReads.second[b].i =>
                  /\ lmReads.first[a].slot = lmReads.second[b].slot
                  /\ lmReads.first[a].pair = lmReads.second[b].pair
        /\ \A j \in 1..Len(lmReads.latest) :
              /\ lmReads.latest[j].pair # NoPair
              /\ lmReads.latest[j].pair.id = LmRecent(1)

\* an update call with dot(s, y) <= 0 changes nothing of the memory
LmRejectedKeeps ==
    (lmCalls' = lmCalls + 1 /\ lmLastSy' <= 0) => lmL' = lmL

\* C30: after any sequence of update calls on the memory of size m = 10,
\* size is min(accepted updates, m), a pair is stored only for
\* dot(s, y) > 0 so that every stored rho is positive, a rejected update
\* changes nothing, and computeDirection reads exactly the size most
\* recently accepted pairs, newest to oldest in the first loop and oldest
\* to newest in the second, alpha[i] with the same pair in both loops, and
\* never an empty slot.
C30_LbfgsMemory ==
    /\ [](LmStored /\ LmReadsRecent)
    /\ [][LmRejectedKeeps]_vars

\* the ring has wrapped (more than m accepted updates), an update was
\* rejected on the way, and computeDirection has read all m slots
C30_Witness ==
    /\ Len(lmAccepted) > LbfgsM
    /\ lmCalls > Len(lmAccepted)
    /\ lmReads.ran
    /\ Len(lmReads.first) = LbfgsM

====
